---- MODULE Spec2Model ----
(***************************************************************************)
(* Batch execution engine of the Yakeen API tester.                        *)
(*                                                                         *)
(* Two versions of the page component are in the repository:               *)
(*   - src/app/page.tsx: runBatchCalls issues the calls one by one and     *)
(*     records them in component-wide refs (batchResultsRef, statsRef,     *)
(*     graphSequenceRef);                                                  *)
(*   - src/unnamed/part_002: runBatchCalls has a sequential and a parallel *)
(*     branch and records in locals of the invocation (batchResults,       *)
(*     successCount, errorCount, totalTime).                               *)
(* An invocation of the async function runBatchCalls is a process: its pc  *)
(* is the await it is suspended at, and every action is one synchronous    *)
(* stretch of code between two awaits (one event-loop task with the        *)
(* microtasks it triggers).                                                *)
(***************************************************************************)
EXTENDS Integers, Sequences, FiniteSets, TLC

\* ------------------------------------------------------------------ bounds
MaxRuns == 2
MaxCount == 2
MaxThreads == 2
MaxModeCount == 4
MaxModeRuns == 1
MaxFlushCount == 2
MaxSeriesCount == 52

\* The invocations of runBatchCalls that can be live at once. An invocation
\* that has returned leaves its place to a later one.
Runs == 1..MaxRuns
ModeRuns == 1..MaxModeRuns

\* The invocation of runManualTests, and all that start a UI update loop.
ManualRun == MaxRuns + 1
Invocations == Runs \cup {ManualRun}

\* part_002 46: useState<number>(5)
DefaultThreadCount == 5

\* page.tsx 74: the buffered points at which addGraphDataPointToRef asks for
\* a UI update.
BATCH_UPDATE_THRESHOLD == 10

\* page.tsx 55: useState<number>(100), and 862-868: the values the Max Graph
\* Data Points input accepts.
DefaultGraphMaxPoints == 100
MinGraphMaxPoints == 50
MaxGraphMaxPoints == 1000

\* page.tsx 588: newData.slice(-100) in the finally block.
FinalFlushKeep == 100

\* ------------------------------------------------------ inputs of the model
\* What GET /api/test-values can answer (page.tsx 523-533).
KnownGood == [dateString |-> "1444-01", nin |-> "1063804759"]
TestValuesResponses ==
  { [kind |-> "ok", dateString |-> KnownGood.dateString, nin |-> KnownGood.nin],
    [kind |-> "ok", dateString |-> "", nin |-> KnownGood.nin],
    [kind |-> "ok", dateString |-> KnownGood.dateString, nin |-> ""],
    [kind |-> "notOk", dateString |-> "", nin |-> ""],
    [kind |-> "throws", dateString |-> "", nin |-> ""] }

\* Values generateRandomDateString / generateRandomNIN can return.
RandomParams ==
  { [dateString |-> "1400-01", nin |-> "100000000"],
    [dateString |-> "1499-12", nin |-> "999999999"] }

\* ------------------------------------------------- proxy and call executor
\* part_001 74-111: what the https request to the target server ends in: an
\* answer with its status code after `elapsed` ms, or an error event.
TargetStatusCodes == {200, 204, 301, 404, 500}
TargetErrorCodes ==
  {"ECONNREFUSED", "ENOTFOUND", "CERT_HAS_EXPIRED", "ETIMEDOUT", "ECONNRESET"}
Elapsed == {0, 1, 2}

TargetAnswer(s, t) ==
  [kind |-> "answer", statusCode |-> s, code |-> "", message |-> "", elapsed |-> t]
TargetError(c, m, t) ==
  [kind |-> "error", statusCode |-> 0, code |-> c, message |-> m, elapsed |-> t]

TargetOutcomes ==
  {TargetAnswer(s, t) : s \in TargetStatusCodes, t \in Elapsed}
    \cup {TargetError(c, m, t) : c \in TargetErrorCodes,
                                 m \in {"", "socket hang up"}, t \in Elapsed}

\* part_001 125-136: the error text the proxy answers with.
DetailedError(code, message) ==
  LET errorMessage == IF message = "" THEN "Failed to fetch" ELSE message IN
  IF code \in {"CERT_HAS_EXPIRED", "UNABLE_TO_VERIFY_LEAF_SIGNATURE"}
  THEN "SSL Certificate Error: " \o errorMessage
  ELSE IF code \in {"ENOTFOUND", "ECONNREFUSED"}
  THEN "Connection Error: " \o errorMessage
  ELSE errorMessage

\* What fetch(proxyUrl) gives makeApiCallWithParams: a response (its HTTP
\* status, whether response.json() parses, and the fields of the parsed
\* body; 0, FALSE and "" stand for a field that is not there) or a rejection.
FetchResponse(http, parses, status, ok, error, responseTime) ==
  [kind |-> "response", http |-> http, parses |-> parses, status |-> status,
   ok |-> ok, error |-> error, responseTime |-> responseTime,
   name |-> "", message |-> ""]
FetchRejects(name, message) ==
  [kind |-> "reject", http |-> 0, parses |-> FALSE, status |-> 0, ok |-> FALSE,
   error |-> "", responseTime |-> 0, name |-> name, message |-> message]

\* part_001 32-148: GET of /api/proxy for a request with these parameters
\* when the target request ends in `target`.
ProxyGET(params, target) ==
  IF params.dateString = "" \/ params.nin = ""
  THEN FetchResponse(400, TRUE, 0, FALSE,
                     "Missing required parameters: dateString and nin", 0)
  ELSE IF target.kind = "answer"
  THEN LET statusCode == IF target.statusCode = 0 THEN 200 ELSE target.statusCode IN
       FetchResponse(200, TRUE, statusCode, statusCode >= 200 /\ statusCode < 300,
                     "", target.elapsed)
  ELSE FetchResponse(500, TRUE, 0, FALSE,
                     DetailedError(target.code, target.message), target.elapsed)

\* The way from the page to the proxy route: the route answers, the request
\* does not get through, something on the way answers with a body that is
\* not JSON, or the signal of the request is aborted.
Links == {"up", "down", "downSilent", "garbled", "garbledOk", "aborted"}

\* page.tsx 232-236: the fetch of one call, over link `link`.
ProxyFetch(params, link, target) ==
  CASE link = "up" -> ProxyGET(params, target)
    [] link = "down" -> FetchRejects("TypeError", "Failed to fetch")
    [] link = "downSilent" -> FetchRejects("TypeError", "")
    [] link = "garbled" -> FetchResponse(502, FALSE, 0, FALSE, "", 0)
    [] link = "aborted" -> FetchRejects("AbortError", "The user aborted a request.")
    [] OTHER -> FetchResponse(200, FALSE, 0, FALSE, "", 0)

\* What the proxy request of one call can end in, for the runs: the target
\* answers 200, the target answers 404, the request does not get through.
Responses ==
  { ProxyFetch(KnownGood, "up", TargetAnswer(200, 2)),
    ProxyFetch(KnownGood, "up", TargetAnswer(404, 1)),
    ProxyFetch(KnownGood, "down", TargetAnswer(200, 0)) }

\* Every kind of failure a call can end in: the target answers 404 or 500,
\* the target cannot be reached, the body does not parse, the request does
\* not get through.
FailureResponses ==
  { ProxyFetch(KnownGood, "up", TargetAnswer(404, 1)),
    ProxyFetch(KnownGood, "up", TargetError("ECONNREFUSED", "", 1)),
    ProxyFetch(KnownGood, "garbled", TargetAnswer(200, 0)),
    ProxyFetch(KnownGood, "down", TargetAnswer(200, 0)) }

\* A variant in which the transport answers a call although Stop was requested.
TransportAnswer == ProxyFetch(KnownGood, "up", TargetAnswer(200, 2))

\* The AbortError the pending fetch rejects with when its signal is aborted.
AbortResponse == FetchRejects("AbortError", "The user aborted a request.")

NoParams == [dateString |-> "", nin |-> ""]

\* No call of the executor taken alone is being made, none has returned.
NoCall == [params |-> NoParams, link |-> "", target |-> TargetAnswer(0, 0)]
NoResult == [id |-> 0, dateString |-> "", nin |-> "", status |-> "", error |-> "",
             duration |-> 0, statusCode |-> 0]

VARIABLES
  isRunning,           \* useState isRunning
  abortControllerRef,  \* 0 (null) or the run whose AbortController it holds
  aborted,             \* signal.aborted of each run's controller
  pc,                  \* where each invocation is suspended
  count,               \* parameter count of each invocation
  loopI,               \* loop variable i (batch, in the parallel branch)
  correct,             \* locals correctDateString / correctNIN
  inFlight,            \* calls issued by the run and not settled
  settled,             \* settled calls of the current Promise.allSettled
  settling,            \* run whose aborted fetch is rejecting (microtask), or 0
  batchResultsRef,     \* page.tsx batchResultsRef.current
  statsRef,            \* page.tsx statsRef.current
  graphSequenceRef,    \* graphSequenceRef.current
  logsRef,             \* messages passed to addLog since the last reset
  batchMode,           \* part_002 useState batchMode
  threadCount,         \* part_002 useState threadCount
  batchResults,        \* part_002 local batchResults of each invocation
  localStats,          \* part_002 locals successCount, errorCount, totalTime
  mode,                \* part_002 batchMode as each invocation's closure holds it
  threads,             \* part_002 threadCount as each invocation's closure holds it
  issued,              \* history: every call issued, in issue order
  completed,           \* history: ids of settled calls per run, in order
  recorded,            \* history: ids each run recorded, in order
  configErrors,        \* history: configuration errors each run reported
  graphDataBufferRef,  \* page.tsx graphDataBufferRef.current
  responseTimeData,    \* useState responseTimeData
  results,             \* useState results
  stats,               \* useState stats
  uiUpdateIntervalRef, \* 0 (null) or the run whose startUIUpdateLoop set the interval
  uiUpdateRequestRef,  \* 0 (null) or the run whose updateUIAsync asked for the frame
  graphMaxPoints,      \* useState graphMaxPoints
  closure,             \* results.length and graphMaxPoints of the render each
                       \* invocation (and its updateUIAsync) was created in
  activeTab,           \* useState activeTab
  manualPc,            \* where the invocation of runManualTests is suspended
  manualParams,        \* manualParams as that invocation's closure holds it
  manualRepeatCount,   \* useState manualRepeatCount; a running invocation
                       \* works with the value of the render that started it
  manualI,             \* its loop variable i, counted from 1
  manualRepeat,        \* its loop variable repeat
  callId,              \* its local callId
  manualResultsRef,    \* manualResultsRef.current
  proxyCall,           \* the request one call of the executor is made for
  apiResult,           \* the ApiResult that call returned
  callCount,           \* useState callCount
  callCountInput,      \* useState callCountInput, the text of the input
  threadCountInput,    \* part_002 useState threadCountInput
  manualRepeatCountInput, \* useState manualRepeatCountInput
  randomRolls,         \* what Math.random() returns to the generators
  generated,           \* the parameters the generators returned
  retryConfig,         \* part_003 withRetry: its parameter config
  fnOutcomes,          \* what fn does in its 1st, 2nd, ... invocation
  retryPc,             \* where the invocation of withRetry is suspended
  attempt,             \* its loop variable attempt
  retryCount,          \* its local retryCount
  lastError,           \* its local lastError
  fnCalls,             \* history: invocations of fn
  delays,              \* history: the delays slept, in order
  retryResult,         \* what withRetry returned or threw
  apiLogsRef,          \* apiLogsRef.current
  apiLogs              \* useState apiLogs, the API response log

vars == <<isRunning, abortControllerRef, aborted, pc, count, loopI,
          correct, inFlight, settled, settling, batchResultsRef, statsRef,
          graphSequenceRef, logsRef, batchMode, threadCount, batchResults,
          localStats, mode, threads, issued, completed, recorded, configErrors,
          graphDataBufferRef, responseTimeData, results, stats,
          uiUpdateIntervalRef, uiUpdateRequestRef, graphMaxPoints, closure,
          activeTab, manualPc, manualParams, manualRepeatCount, manualI,
          manualRepeat, callId, manualResultsRef, proxyCall, apiResult,
          callCount, callCountInput, threadCountInput, manualRepeatCountInput,
          randomRolls, generated, retryConfig, fnOutcomes, retryPc, attempt,
          retryCount, lastError, fnCalls, delays, retryResult, apiLogsRef,
          apiLogs>>

\* The UI update layer of page.tsx.
uiVars == <<graphDataBufferRef, responseTimeData, results, stats,
            uiUpdateIntervalRef, uiUpdateRequestRef, graphMaxPoints, closure>>

\* The invocation of runManualTests and the tab it is started from.
manualVars == <<activeTab, manualPc, manualParams, manualRepeatCount, manualI,
                manualRepeat, callId, manualResultsRef>>

\* One call of the executor taken alone.
executorVars == <<proxyCall, apiResult>>

\* The numeric inputs of the configuration panel.
inputVars == <<callCount, callCountInput, threadCountInput, manualRepeatCountInput>>

\* What the actions of a run leave alone.
\* The parameter generators taken alone.
randomVars == <<randomRolls, generated>>

\* One invocation of withRetry taken alone.
retryVars == <<retryConfig, fnOutcomes, retryPc, attempt, retryCount, lastError,
               fnCalls, delays, retryResult>>

libVars == <<inputVars, randomVars, retryVars>>

\* The API response log. It is written by addApiLog and by the frame callback
\* of updateUIAsync and read by nothing but the rendering; the actions of the
\* runs are given once with the log left as it is and, for the calls and the
\* frame callback, once more with the log written (the Logged actions).
apiLogVars == <<apiLogsRef, apiLogs>>

asideVars == <<manualVars, executorVars, libVars>>

sideVars == <<asideVars, apiLogVars>>

\* ------------------------------------------------------------- arithmetic
RECURSIVE Gcd(_, _)
Gcd(a, b) == IF b = 0 THEN a ELSE Gcd(b, a % b)

\* A non-negative rational, kept in lowest terms.
Rat(n, d) == LET g == Gcd(n, d) IN
             IF n = 0 THEN [num |-> 0, den |-> 1]
             ELSE [num |-> n \div g, den |-> d \div g]

Range(f) == {f[j] : j \in DOMAIN f}

Max(a, b) == IF a >= b THEN a ELSE b
Min(a, b) == IF a <= b THEN a ELSE b

\* ------------------------------------------------------------------- text
\* The text of an input is the sequence of its characters.
Digits == <<"0", "1", "2", "3", "4", "5", "6", "7", "8", "9">>
IsDigit(ch) == \E d \in 1..10 : Digits[d] = ch
DigitValue(ch) == (CHOOSE d \in 1..10 : Digits[d] = ch) - 1

RECURSIVE SkipWhiteSpace(_)
SkipWhiteSpace(t) ==
  IF t # <<>> /\ Head(t) = " " THEN SkipWhiteSpace(Tail(t)) ELSE t

RECURSIVE DigitPrefix(_)
DigitPrefix(t) ==
  IF t # <<>> /\ IsDigit(Head(t)) THEN <<Head(t)>> \o DigitPrefix(Tail(t))
  ELSE <<>>

RECURSIVE DigitsValue(_)
DigitsValue(ds) ==
  IF ds = <<>> THEN 0
  ELSE DigitsValue(SubSeq(ds, 1, Len(ds) - 1)) * 10 + DigitValue(ds[Len(ds)])

\* parseInt(text, 10): leading white space is skipped, a sign is read, then
\* the longest run of digits; the result is NaN when there is no digit.
ParseInt(text) ==
  LET t == SkipWhiteSpace(text)
      signed == t # <<>> /\ Head(t) \in {"-", "+"}
      ds == DigitPrefix(IF signed THEN Tail(t) ELSE t)
  IN [isNaN |-> ds = <<>>,
      value |-> IF signed /\ Head(t) = "-" THEN 0 - DigitsValue(ds)
                ELSE DigitsValue(ds)]

\* Number.prototype.toString() of an integer.
RECURSIVE NumberToString(_)
NumberToString(n) ==
  IF n < 0 THEN <<"-">> \o NumberToString(0 - n)
  ELSE IF n < 10 THEN <<Digits[n + 1]>>
  ELSE NumberToString(n \div 10) \o <<Digits[(n % 10) + 1]>>

\* ----------------------------------------------------------- call executor
\* A variant in which every answer of the target counts as a success.
ProxyAnswered(resp) == resp.status # 0

\* page.tsx 329: proxyData.ok ? 'success' : 'error'.
ProxyOk(resp) == resp.ok

\* A variant that gives every failure statusCode 0.
StatusCodeZero(resp) == 0

\* page.tsx 276: proxyData.status || response.status || 500.
StatusCodeOf(resp) ==
  IF resp.status # 0 THEN resp.status ELSE IF resp.http # 0 THEN resp.http ELSE 500

\* page.tsx 221-413, makeApiCallWithParams: the ApiResult built for each way
\* the request ends.
MakeApiCallWithParams(id, params, resp) ==
  LET base == [id |-> id, dateString |-> params.dateString, nin |-> params.nin]
      httpOk == resp.http >= 200 /\ resp.http < 300
  IN CASE resp.kind = "reject" ->
            base @@ [status |-> "error",
                     error |-> IF resp.name = "AbortError" THEN "Request aborted"
                               ELSE IF resp.message # "" THEN resp.message
                               ELSE resp.name,
                     duration |-> 0, statusCode |-> 0]
       [] resp.kind = "response" /\ ~resp.parses ->
            base @@ [status |-> "error", error |-> "Failed to parse response",
                     duration |-> 0,
                     statusCode |-> IF resp.http # 0 THEN resp.http ELSE 500]
       [] resp.kind = "response" /\ resp.parses /\ (~httpOk \/ resp.error # "") ->
            base @@ [status |-> "error",
                     error |-> IF resp.error # "" THEN resp.error ELSE "Proxy error",
                     duration |-> resp.responseTime, statusCode |-> StatusCodeOf(resp)]
       [] OTHER ->
            base @@ [status |-> IF ProxyOk(resp) THEN "success" ELSE "error",
                     error |-> "",
                     duration |-> resp.responseTime, statusCode |-> StatusCodeOf(resp)]

\* A variant in which the totals start from what an earlier run left.
StaleStats == [total |-> 1, success |-> 1, error |-> 0, averageTime |-> Rat(2, 1)]

\* page.tsx 501 (and 441, 613): the totals a run starts from.
ZeroStats == [total |-> 0, success |-> 0, error |-> 0, averageTime |-> Rat(0, 1)]

\* page.tsx 547-553: the canary assigns its own duration to averageTime.
RecordCanaryStats(s, res) ==
  [total |-> s.total + 1,
   success |-> s.success + (IF res.status = "success" THEN 1 ELSE 0),
   error |-> s.error + (IF res.status = "success" THEN 0 ELSE 1),
   averageTime |-> Rat(res.duration, 1)]

\* A variant of the totals in which every outcome counts as a success.
RecordCallStatsAsSuccess(s, res) ==
  LET currentTotal == s.total + 1 IN
  [total |-> currentTotal, success |-> s.success + 1, error |-> s.error,
   averageTime |->
     Rat(s.averageTime.num * (currentTotal - 1) + res.duration * s.averageTime.den,
         s.averageTime.den * currentTotal)]

\* page.tsx 568-575: incremental average.
RecordCallStats(s, res) ==
  LET currentTotal == s.total + 1 IN
  [total |-> currentTotal,
   success |-> s.success + (IF res.status = "success" THEN 1 ELSE 0),
   error |-> s.error + (IF res.status = "success" THEN 0 ELSE 1),
   averageTime |->
     Rat(s.averageTime.num * (currentTotal - 1) + res.duration * s.averageTime.den,
         s.averageTime.den * currentTotal)]

Call(r, id, params, gen) ==
  [run |-> r, id |-> id, dateString |-> params.dateString, nin |-> params.nin,
   gen |-> gen]

CallParams(c) == [dateString |-> c.dateString, nin |-> c.nin]

\* A variant of the canary that draws its parameters like any other call.
CanaryCallRandom(r, params) ==
  Call(r, 1, CHOOSE p \in RandomParams : TRUE, "random")

\* page.tsx 543: makeApiCallWithParams(1, correctDateString, correctNIN, ...).
CanaryCall(r, params) == Call(r, 1, params, "supplied")

\* ------------------------------------------------------------------- Init
\* The component after construction (page.tsx 38-72).
InitHome ==
  /\ isRunning = FALSE
  /\ abortControllerRef = 0
  /\ aborted = [r \in Runs |-> FALSE]
  /\ pc = [r \in Runs |-> "idle"]
  /\ count = [r \in Runs |-> 0]
  /\ loopI = [r \in Runs |-> 0]
  /\ correct = [r \in Runs |-> NoParams]
  /\ inFlight = [r \in Runs |-> {}]
  /\ settled = [r \in Runs |-> {}]
  /\ settling = 0
  /\ batchResultsRef = <<>>
  /\ statsRef = ZeroStats
  /\ graphSequenceRef = 0
  /\ logsRef = <<>>
  /\ batchMode = "sequential"
  /\ threadCount = DefaultThreadCount
  /\ batchResults = [r \in Runs |-> <<>>]
  /\ localStats = [r \in Runs |-> [successCount |-> 0, errorCount |-> 0, totalTime |-> 0]]
  /\ mode = [r \in Runs |-> "sequential"]
  /\ threads = [r \in Runs |-> 1]
  /\ issued = <<>>
  /\ completed = [r \in Runs |-> <<>>]
  /\ recorded = [r \in Runs |-> <<>>]
  /\ configErrors = [r \in Runs |-> 0]
  /\ graphDataBufferRef = <<>>
  /\ responseTimeData = <<>>
  /\ results = <<>>
  /\ stats = ZeroStats
  /\ uiUpdateIntervalRef = 0
  /\ uiUpdateRequestRef = 0
  /\ graphMaxPoints = DefaultGraphMaxPoints
  /\ closure = [r \in Invocations |-> [resultsLength |-> 0,
                                        graphMaxPoints |-> DefaultGraphMaxPoints]]
  /\ activeTab = "manual"
  /\ manualPc = "idle"
  /\ manualParams = <<NoParams>>
  /\ manualRepeatCount = 1
  /\ manualI = 0
  /\ manualRepeat = 0
  /\ callId = 1
  /\ manualResultsRef = <<>>
  /\ callCount = 1000
  /\ callCountInput = <<"1", "0", "0", "0">>
  /\ threadCountInput = <<"5">>
  /\ manualRepeatCountInput = <<"1">>
  /\ apiLogsRef = <<>>
  /\ apiLogs = <<>>

\* No parameters generated yet.
NoRolls == [year |-> [num |-> 0, den |-> 1], month |-> [num |-> 0, den |-> 1],
            nin |-> [num |-> 0, den |-> 1]]
NoneGenerated == [dateString |-> <<>>, nin |-> <<>>]

\* part_003 98-102 with constants.ts 9-12.
DEFAULT_RETRY_CONFIG ==
  [maxRetries |-> 3, retryDelay |-> 1000,
   retryableStatusCodes |-> <<500, 502, 503, 504, 408>>]

\* What fn settles with: a result, or an error with its statusCode and code
\* (0 and "" when the error has none).
FnResult(v) == [kind |-> "result", statusCode |-> 0, code |-> "", invocation |-> v]
FnError(statusCode, code) ==
  [kind |-> "error", statusCode |-> statusCode, code |-> code, invocation |-> 0]
Undefined == [kind |-> "undefined", statusCode |-> 0, code |-> "", invocation |-> 0]
NoRetryResult == [kind |-> "", value |-> Undefined, retryCount |-> 0]

RetryIdle ==
  /\ retryConfig = DEFAULT_RETRY_CONFIG
  /\ fnOutcomes = <<>>
  /\ retryPc = "idle"
  /\ attempt = 0
  /\ retryCount = 0
  /\ lastError = Undefined
  /\ fnCalls = 0
  /\ delays = <<>>
  /\ retryResult = NoRetryResult

\* The utilities outside the component, not called.
LibIdle ==
  /\ randomRolls = NoRolls
  /\ generated = NoneGenerated
  /\ RetryIdle

Init ==
  /\ InitHome
  /\ proxyCall = NoCall
  /\ apiResult = NoResult
  /\ LibIdle

\* --------------------------------------------------------- UI update layer
\* Array.prototype.slice(start): a negative start counts from the end, and
\* -0 is 0.
Slice(s, start) ==
  LET n == Len(s)
      from == IF start < 0 THEN Max(n + start, 0) ELSE Min(start, n)
  IN SubSeq(s, from + 1, n)

\* page.tsx 137-142: the point addGraphDataPointToRef pushes for a result.
GraphPoint(seq, res) ==
  [time |-> seq, duration |-> res.duration,
   success |-> IF res.status = "success" THEN 1 ELSE 0,
   error |-> IF res.status = "error" THEN 1 ELSE 0]

\* page.tsx 90-99: the updater updateUIAsync passes to setResponseTimeData.
FlushGraphBuffer(prev, buffer, maxPoints) ==
  IF Len(prev) + Len(buffer) <= maxPoints THEN prev \o buffer
  ELSE Slice(prev, -(maxPoints - Len(buffer))) \o buffer

\* page.tsx 584-589: the updater of the finally block.
FinalFlush(prev, buffer) == Slice(prev \o buffer, -FinalFlushKeep)

\* page.tsx 144-146: the request addGraphDataPointToRef of run r leaves once
\* buffer holds the pushed point.
RequestAfterPush(r, buffer) ==
  IF Len(buffer) >= BATCH_UPDATE_THRESHOLD THEN r ELSE uiUpdateRequestRef

Live(r) == pc[r] \notin {"idle", "done"}

\* The place a new invocation takes: the first one free.
Free(R) == {r \in R : ~Live(r)}
FirstFree(R) == CHOOSE r \in Free(R) : \A q \in Free(R) : r <= q

\* The histories without what a returned invocation in place r left.
IssuedWithout(r) == SelectSeq(issued, LAMBDA c : c.run # r)

\* Variables of the part_002 version, which page.tsx does not have.
modeVars == <<batchMode, threadCount, batchResults, localStats, settled, mode, threads>>

\* ------------------------------------------ page.tsx: runBatchCalls, start
\* page.tsx 494-524: everything up to the await of fetch('/api/test-values').
RunBatchCalls(c) ==
  /\ settling = 0
  /\ Free(Runs) # {}
  /\ LET r == FirstFree(Runs) IN
     /\ isRunning' = TRUE
     /\ batchResultsRef' = <<>>
     /\ logsRef' = <<"start">>
     /\ graphSequenceRef' = 0
     /\ statsRef' = ZeroStats
     /\ abortControllerRef' = r
     /\ aborted' = [aborted EXCEPT ![r] = FALSE]
     /\ count' = [count EXCEPT ![r] = c]
     /\ pc' = [pc EXCEPT ![r] = "testValues"]
     /\ loopI' = [loopI EXCEPT ![r] = 0]
     /\ correct' = [correct EXCEPT ![r] = NoParams]
     /\ inFlight' = [inFlight EXCEPT ![r] = {}]
     /\ issued' = IssuedWithout(r)
     /\ completed' = [completed EXCEPT ![r] = <<>>]
     /\ recorded' = [recorded EXCEPT ![r] = <<>>]
     /\ configErrors' = [configErrors EXCEPT ![r] = 0]
     /\ graphDataBufferRef' = <<>>
     /\ results' = <<>>
     /\ responseTimeData' = <<>>
     /\ stats' = ZeroStats
     /\ uiUpdateIntervalRef' = r
     /\ closure' = [closure EXCEPT ![r] = [resultsLength |-> Len(results),
                                          graphMaxPoints |-> graphMaxPoints]]
  /\ apiLogsRef' = <<>>
  /\ UNCHANGED <<settling, uiUpdateRequestRef, graphMaxPoints, apiLogs>>
  /\ UNCHANGED modeVars
  /\ UNCHANGED asideVars

\* page.tsx 1124-1130: the Run Batch Test button, disabled while isRunning
\* or callCount < 1; callCount is kept in 1..10000 by the input handlers.
RunBatchTestButton ==
  /\ ~isRunning
  /\ \E c \in 1..MaxCount : RunBatchCalls(c)

\* A variant of the loop test without 'if (signal.aborted) break'.
LoopIgnoresAbort(r, i) == i < count[r] - 1

\* page.tsx 561-562: i < remainingCalls, and no break on signal.aborted.
LoopGoesOn(r, i) == i < count[r] - 1 /\ ~aborted[r]

\* A variant of the finally block that leaves isRunning as it is.
FinallyKeepsRunning(r, logs, buffer) ==
  /\ inFlight' = [inFlight EXCEPT ![r] = {}]
  /\ pc' = [pc EXCEPT ![r] = "done"]
  /\ responseTimeData' = IF buffer # <<>> THEN FinalFlush(responseTimeData, buffer)
                          ELSE responseTimeData
  /\ graphDataBufferRef' = <<>>
  /\ uiUpdateIntervalRef' = 0
  /\ uiUpdateRequestRef' = r
  /\ isRunning' = isRunning
  /\ abortControllerRef' = 0
  /\ logsRef' = IF aborted[r] THEN logs ELSE Append(logs, "completed")

\* page.tsx 583-603: the finally block of runBatchCalls.
Finally(r, logs, buffer) ==
  /\ inFlight' = [inFlight EXCEPT ![r] = {}]
  /\ pc' = [pc EXCEPT ![r] = "done"]
  /\ responseTimeData' = IF buffer # <<>> THEN FinalFlush(responseTimeData, buffer)
                          ELSE responseTimeData
  /\ graphDataBufferRef' = <<>>
  /\ uiUpdateIntervalRef' = 0
  /\ uiUpdateRequestRef' = r
  /\ isRunning' = FALSE
  /\ abortControllerRef' = 0
  /\ logsRef' = IF aborted[r] THEN logs ELSE Append(logs, "completed")

\* page.tsx 558-564 and 583-603: the head of the loop at iteration i, which
\* issues call i + 2 or leaves the loop into the finally block: the buffered
\* points are flushed, stopUIUpdateLoop clears the interval and the pending
\* frame and asks for a new one. logs, buffer and request are
\* logsRef.current, graphDataBufferRef.current and uiUpdateRequestRef.current
\* as the code before it left them.
Proceed(r, i, p, logs, buffer, request) ==
  /\ UNCHANGED <<results, stats, graphMaxPoints, closure>>
  /\ IF LoopGoesOn(r, i)
     THEN /\ inFlight' = [inFlight EXCEPT ![r] = {Call(r, i + 2, p, "random")}]
          /\ issued' = Append(issued, Call(r, i + 2, p, "random"))
          /\ loopI' = [loopI EXCEPT ![r] = i]
          /\ pc' = [pc EXCEPT ![r] = "call"]
          /\ logsRef' = logs
          /\ graphDataBufferRef' = buffer
          /\ uiUpdateRequestRef' = request
          /\ UNCHANGED <<isRunning, abortControllerRef, responseTimeData,
                         uiUpdateIntervalRef>>
     ELSE /\ Finally(r, logs, buffer)
          /\ UNCHANGED <<issued, loopI>>

\* page.tsx 525-556: fetch('/api/test-values') has settled with tv.
TestValuesSettle(r, tv) ==
  /\ settling = 0
  /\ pc[r] = "testValues"
  /\ LET ok == tv.kind = "ok"
         correctDateString == IF ok THEN tv.dateString ELSE ""
         correctNIN == IF ok THEN tv.nin ELSE ""
         logs1 == IF tv.kind = "throws" THEN Append(logsRef, "warnTestValues")
                  ELSE logsRef
     IN IF correctDateString = "" \/ correctNIN = ""
        THEN /\ logsRef' = Append(logs1, "configError")
             /\ configErrors' = [configErrors EXCEPT ![r] = @ + 1]
             /\ isRunning' = FALSE
             /\ pc' = [pc EXCEPT ![r] = "done"]
             /\ UNCHANGED <<abortControllerRef, correct, inFlight, issued, loopI>>
             /\ UNCHANGED uiVars
        ELSE /\ correct' = [correct EXCEPT ![r] =
                             [dateString |-> correctDateString, nin |-> correctNIN]]
             /\ UNCHANGED configErrors
             /\ IF ~aborted[r]
                THEN /\ logsRef' = Append(logs1, "canaryFirst")
                     /\ UNCHANGED uiVars
                     /\ inFlight' = [inFlight EXCEPT ![r] =
                                      {CanaryCall(r, correct'[r])}]
                     /\ issued' = Append(issued, CanaryCall(r, correct'[r]))
                     /\ pc' = [pc EXCEPT ![r] = "canary"]
                     /\ UNCHANGED <<isRunning, abortControllerRef, loopI>>
                ELSE \E p \in RandomParams :
                       Proceed(r, 0, p, logs1, graphDataBufferRef, uiUpdateRequestRef)
  /\ UNCHANGED <<aborted, count, settling, batchResultsRef, statsRef,
                 graphSequenceRef, completed, recorded>>
  /\ UNCHANGED modeVars
  /\ UNCHANGED sideVars

\* The log line makeApiCallWithParams adds for a call (none for an AbortError).
CallLog(logs, resp) == IF resp.name = "AbortError" THEN logs ELSE Append(logs, "call")

\* page.tsx 543-556 after the await: the canary's result is recorded, then
\* the loop is entered.
CanaryRecorded(r, resp, p) ==
  LET c == CHOOSE x \in inFlight[r] : TRUE
      res == MakeApiCallWithParams(c.id, CallParams(c), resp)
  IN /\ batchResultsRef' = Append(batchResultsRef, res @@ [run |-> r])
     /\ statsRef' = RecordCanaryStats(statsRef, res)
     /\ graphSequenceRef' = graphSequenceRef + 1
     /\ completed' = [completed EXCEPT ![r] = Append(@, c.id)]
     /\ recorded' = [recorded EXCEPT ![r] = Append(@, res.id)]
     /\ LET buffer == Append(graphDataBufferRef, GraphPoint(graphSequenceRef + 1, res))
        IN Proceed(r, 0, p, CallLog(logsRef, resp), buffer, RequestAfterPush(r, buffer))

\* page.tsx 564-577 after the await: the result of call i + 2 is recorded,
\* then the loop goes on with i + 1.
CallRecorded(r, resp, p) ==
  LET c == CHOOSE x \in inFlight[r] : TRUE
      res == MakeApiCallWithParams(c.id, CallParams(c), resp)
  IN /\ batchResultsRef' = Append(batchResultsRef, res @@ [run |-> r])
     /\ statsRef' = RecordCallStats(statsRef, res)
     /\ graphSequenceRef' = graphSequenceRef + 1
     /\ completed' = [completed EXCEPT ![r] = Append(@, c.id)]
     /\ recorded' = [recorded EXCEPT ![r] = Append(@, res.id)]
     /\ LET buffer == Append(graphDataBufferRef, GraphPoint(graphSequenceRef + 1, res))
        IN Proceed(r, loopI[r] + 1, p, CallLog(logsRef, resp), buffer,
                   RequestAfterPush(r, buffer))

CanarySettles(r, resp, p) ==
  /\ settling = 0
  /\ pc[r] = "canary"
  /\ CanaryRecorded(r, resp, p)
  /\ UNCHANGED <<aborted, count, correct, settling, configErrors>>
  /\ UNCHANGED modeVars
  /\ UNCHANGED sideVars

CallSettles(r, resp, p) ==
  /\ settling = 0
  /\ pc[r] = "call"
  /\ CallRecorded(r, resp, p)
  /\ UNCHANGED <<aborted, count, correct, settling, configErrors>>
  /\ UNCHANGED modeVars
  /\ UNCHANGED sideVars

\* page.tsx 198-219, called at 269, 319, 365 and 406: the entry addApiLog
\* pushes for the result res of a call answered with resp; a call that ended
\* in an AbortError is not logged.
AddApiLog(ref, resp, res) ==
  IF resp.name = "AbortError" THEN ref
  ELSE Append(ref, [serial |-> Len(ref) + 1, statusCode |-> res.statusCode,
                    time |-> res.duration])

\* CanarySettles and CallSettles with the entry makeApiCallWithParams adds to
\* the API response log before it returns.
CanarySettlesLogged(r, resp, p) ==
  /\ settling = 0
  /\ pc[r] = "canary"
  /\ CanaryRecorded(r, resp, p)
  /\ LET c == CHOOSE x \in inFlight[r] : TRUE
     IN apiLogsRef' = AddApiLog(apiLogsRef, resp,
                                MakeApiCallWithParams(c.id, CallParams(c), resp))
  /\ UNCHANGED <<aborted, count, correct, settling, configErrors, apiLogs>>
  /\ UNCHANGED modeVars
  /\ UNCHANGED asideVars

CallSettlesLogged(r, resp, p) ==
  /\ settling = 0
  /\ pc[r] = "call"
  /\ CallRecorded(r, resp, p)
  /\ LET c == CHOOSE x \in inFlight[r] : TRUE
     IN apiLogsRef' = AddApiLog(apiLogsRef, resp,
                                MakeApiCallWithParams(c.id, CallParams(c), resp))
  /\ UNCHANGED <<aborted, count, correct, settling, configErrors, apiLogs>>
  /\ UNCHANGED modeVars
  /\ UNCHANGED asideVars

\* page.tsx 370-412: abort() rejects the pending fetch of the run with an
\* AbortError; makeApiCallWithParams returns 'Request aborted' and the run
\* goes on, in the microtasks of the task that called abort().
AbortSettles(r) ==
  /\ settling = r
  /\ settling' = 0
  /\ \E p \in RandomParams :
       IF pc[r] = "canary" THEN CanaryRecorded(r, AbortResponse, p)
       ELSE CallRecorded(r, AbortResponse, p)
  /\ UNCHANGED <<aborted, count, correct, configErrors>>
  /\ UNCHANGED modeVars
  /\ UNCHANGED sideVars

\* page.tsx 422-427: the body of stopBatchCalls when abortControllerRef holds
\* a controller; abort() reaches the run the controller belongs to.
AbortCurrent ==
  /\ settling = 0
  /\ abortControllerRef # 0
  /\ aborted' = [aborted EXCEPT ![abortControllerRef] = TRUE]
  /\ settling' = IF inFlight[abortControllerRef] # {} THEN abortControllerRef ELSE 0
  /\ abortControllerRef' = 0
  /\ isRunning' = FALSE
  /\ logsRef' = Append(logsRef, "stopped")
  /\ UNCHANGED <<pc, count, loopI, correct, inFlight, batchResultsRef,
                 statsRef, graphSequenceRef, issued, completed, recorded,
                 configErrors>>
  /\ UNCHANGED uiVars
  /\ UNCHANGED modeVars
  /\ UNCHANGED sideVars

\* page.tsx 421-428 behind the Stop button (1131-1137, disabled unless
\* isRunning).
StopBatchCalls ==
  /\ isRunning
  /\ AbortCurrent

\* page.tsx 421-428: stopBatchCalls called at any time; without a controller
\* in abortControllerRef it does nothing.
StopBatchCallsDirect ==
  IF abortControllerRef # 0 THEN AbortCurrent
  ELSE settling = 0 /\ UNCHANGED vars

\* page.tsx 606-625 behind the Clear Results button (disabled while isRunning).
ClearResults ==
  /\ settling = 0
  /\ ~isRunning
  /\ batchResultsRef' = <<>>
  /\ logsRef' = <<>>
  /\ graphSequenceRef' = 0
  /\ statsRef' = ZeroStats
  /\ graphDataBufferRef' = <<>>
  /\ responseTimeData' = <<>>
  /\ results' = <<>>
  /\ stats' = ZeroStats
  /\ manualResultsRef' = <<>>
  /\ callCountInput' = NumberToString(callCount)
  /\ UNCHANGED <<isRunning, abortControllerRef, aborted, pc, count,
                 loopI, correct, inFlight, settling, issued, completed,
                 recorded, configErrors, uiUpdateIntervalRef,
                 uiUpdateRequestRef, graphMaxPoints, closure>>
  /\ UNCHANGED <<activeTab, manualPc, manualParams, manualRepeatCount, manualI,
                 manualRepeat, callId>>
  /\ UNCHANGED executorVars
  /\ apiLogsRef' = <<>>
  /\ apiLogs' = <<>>
  /\ UNCHANGED <<callCount, threadCountInput, manualRepeatCountInput>>
  /\ UNCHANGED <<randomVars, retryVars>>
  /\ UNCHANGED modeVars

Settles ==
  \/ \E r \in Runs, tv \in TestValuesResponses : TestValuesSettle(r, tv)
  \/ \E r \in Runs, resp \in Responses, p \in RandomParams : CanarySettles(r, resp, p)
  \/ \E r \in Runs, resp \in Responses, p \in RandomParams : CallSettles(r, resp, p)
  \/ \E r \in Runs : AbortSettles(r)

Next ==
  \/ RunBatchTestButton
  \/ StopBatchCalls
  \/ ClearResults
  \/ Settles

Spec == Init /\ [][Next]_vars

\* runBatchCalls(count: number) called with any count its signature admits,
\* 0 included, which the button's callCount < 1 test keeps away.
RunBatchCallsDirect ==
  /\ ~isRunning
  /\ \E c \in 0..MaxCount : RunBatchCalls(c)

NextDirect ==
  \/ RunBatchCallsDirect
  \/ StopBatchCallsDirect
  \/ ClearResults
  \/ Settles

SpecDirect == Init /\ [][NextDirect]_vars

\* Every request of a run settles: fetch('/api/test-values'), the canary,
\* the calls of the loop. A request that is pending stays pending only
\* through the microtasks of a Stop, hence the strong fairness.
Fairness ==
  \A r \in Runs :
    /\ SF_vars(\E tv \in TestValuesResponses : TestValuesSettle(r, tv))
    /\ SF_vars(\E resp \in Responses, p \in RandomParams : CanarySettles(r, resp, p))
    /\ SF_vars(\E resp \in Responses, p \in RandomParams : CallSettles(r, resp, p))
    /\ WF_vars(AbortSettles(r))

SpecLive == Spec /\ Fairness

\* ------------------------------------------- page.tsx: UI update delivery
\* page.tsx 154-156: the interval set by startUIUpdateLoop calls the
\* updateUIAsync of the render the run was started in; updateUIAsync (84-88)
\* cancels a pending frame and requests one.
IntervalElapses ==
  /\ settling = 0
  /\ uiUpdateIntervalRef # 0
  /\ uiUpdateRequestRef' = uiUpdateIntervalRef
  /\ UNCHANGED <<isRunning, abortControllerRef, aborted, pc, count, loopI,
                 correct, inFlight, settling, batchResultsRef, statsRef,
                 graphSequenceRef, logsRef, issued, completed, recorded,
                 configErrors, graphDataBufferRef, responseTimeData, results,
                 stats, uiUpdateIntervalRef, graphMaxPoints, closure>>
  /\ UNCHANGED modeVars
  /\ UNCHANGED sideVars

\* page.tsx 88-130: the requestAnimationFrame callback of updateUIAsync: the
\* buffered points go to responseTimeData, the results are delivered when
\* their number differs from the results.length the callback was created
\* with, the totals are delivered, the buffered log lines are handed over.
FrameCallback(r) ==
  /\ IF graphDataBufferRef # <<>>
     THEN /\ responseTimeData' = FlushGraphBuffer(responseTimeData, graphDataBufferRef,
                                                  closure[r].graphMaxPoints)
          /\ graphDataBufferRef' = <<>>
     ELSE UNCHANGED <<responseTimeData, graphDataBufferRef>>
  /\ results' = IF Len(batchResultsRef) > 0
                   /\ Len(batchResultsRef) # closure[r].resultsLength
                THEN batchResultsRef ELSE results
  /\ stats' = statsRef
  /\ logsRef' = <<>>
  /\ uiUpdateRequestRef' = 0
  /\ UNCHANGED <<isRunning, abortControllerRef, aborted, pc, count, loopI,
                 correct, inFlight, settling, batchResultsRef, statsRef,
                 graphSequenceRef, issued, completed, recorded, configErrors,
                 uiUpdateIntervalRef, graphMaxPoints, closure>>
  /\ UNCHANGED modeVars
  /\ UNCHANGED asideVars

AnimationFrame ==
  /\ settling = 0
  /\ uiUpdateRequestRef # 0
  /\ FrameCallback(uiUpdateRequestRef)
  /\ UNCHANGED apiLogVars

\* page.tsx 57: useState apiLogMaxEntries.
DefaultApiLogMaxEntries == 100

\* page.tsx 88-130 with 121-127: the frame callback, the API response log
\* included: the buffered entries are appended to apiLogs, which keeps its
\* last apiLogMaxEntries entries, and the buffer is emptied.
AnimationFrameLogged ==
  /\ settling = 0
  /\ uiUpdateRequestRef # 0
  /\ FrameCallback(uiUpdateRequestRef)
  /\ IF apiLogsRef # <<>>
     THEN /\ apiLogs' = Slice(apiLogs \o apiLogsRef, 0 - DefaultApiLogMaxEntries)
          /\ apiLogsRef' = <<>>
     ELSE UNCHANGED apiLogVars

\* page.tsx 862-868: the Max Graph Data Points input.
SetGraphMaxPoints(value) ==
  /\ settling = 0
  /\ value >= MinGraphMaxPoints
  /\ value <= MaxGraphMaxPoints
  /\ graphMaxPoints' = value
  /\ UNCHANGED <<isRunning, abortControllerRef, aborted, pc, count, loopI,
                 correct, inFlight, settling, batchResultsRef, statsRef,
                 graphSequenceRef, logsRef, issued, completed, recorded,
                 configErrors, graphDataBufferRef, responseTimeData, results,
                 stats, uiUpdateIntervalRef, uiUpdateRequestRef, closure>>
  /\ UNCHANGED modeVars
  /\ UNCHANGED sideVars

\* The runs of the delivery specifications: the canary parameters are
\* present and every call is answered alike.
FlushResponse == ProxyFetch(KnownGood, "up", TargetAnswer(200, 2))
FlushParams == CHOOSE p \in RandomParams : TRUE
FlushTestValues ==
  [kind |-> "ok", dateString |-> KnownGood.dateString, nin |-> KnownGood.nin]

FlushRunBatchTestButton ==
  /\ ~isRunning
  /\ \E c \in 1..MaxFlushCount : RunBatchCalls(c)

FlushSettles ==
  \/ \E r \in Runs : TestValuesSettle(r, FlushTestValues)
  \/ \E r \in Runs : CanarySettles(r, FlushResponse, FlushParams)
  \/ \E r \in Runs : CallSettles(r, FlushResponse, FlushParams)

NextFlush ==
  \/ FlushRunBatchTestButton
  \/ ClearResults
  \/ \E value \in {MinGraphMaxPoints, DefaultGraphMaxPoints} : SetGraphMaxPoints(value)
  \/ IntervalElapses
  \/ AnimationFrame
  \/ FlushSettles

SpecFlush == Init /\ [][NextFlush]_vars

\* The first run after the page was loaded, long enough to fill the time
\* series beyond the smallest capacity.
SeriesRunBatchTestButton ==
  /\ ~isRunning
  /\ \A r \in Runs : pc[r] = "idle"
  /\ RunBatchCalls(MaxSeriesCount)

NextSeries ==
  \/ SeriesRunBatchTestButton
  \/ ClearResults
  \/ \E value \in {MinGraphMaxPoints, DefaultGraphMaxPoints} : SetGraphMaxPoints(value)
  \/ IntervalElapses
  \/ AnimationFrame
  \/ FlushSettles

SpecSeries == Init /\ [][NextSeries]_vars

\* The first run after the page was loaded, with the API response log.
MaxApiLogCount == 3
ApiLogRunBatchTestButton ==
  /\ ~isRunning
  /\ \A r \in Runs : pc[r] = "idle"
  /\ \E c \in 1..MaxApiLogCount : RunBatchCalls(c)

ApiLogSettles ==
  \/ \E r \in Runs : TestValuesSettle(r, FlushTestValues)
  \/ \E r \in Runs, resp \in Responses : CanarySettlesLogged(r, resp, FlushParams)
  \/ \E r \in Runs, resp \in Responses : CallSettlesLogged(r, resp, FlushParams)

NextApiLog ==
  \/ ApiLogRunBatchTestButton
  \/ IntervalElapses
  \/ AnimationFrameLogged
  \/ ApiLogSettles

SpecApiLog == Init /\ [][NextApiLog]_vars

\* ------------------------------------------------- page.tsx: manual runs
\* page.tsx 967-976: the tab buttons, disabled while isRunning.
SetActiveTab(tab) ==
  /\ settling = 0
  /\ ~isRunning
  /\ activeTab # tab
  /\ activeTab' = tab
  /\ UNCHANGED <<isRunning, abortControllerRef, aborted, pc, count, loopI,
                 correct, inFlight, settling, batchResultsRef, statsRef,
                 graphSequenceRef, logsRef, issued, completed, recorded,
                 configErrors>>
  /\ UNCHANGED uiVars
  /\ UNCHANGED <<manualPc, manualParams, manualRepeatCount, manualI,
                 manualRepeat, callId, manualResultsRef>>
  /\ UNCHANGED executorVars
  /\ UNCHANGED libVars
  /\ UNCHANGED apiLogVars
  /\ UNCHANGED modeVars

\* page.tsx 456: a row is run when both of its fields are filled in.
RowFilled(row) == row.dateString # "" /\ row.nin # ""

\* page.tsx 454-456: the first filled row from row i on, Len(ps) + 1 if there
\* is none.
NextRow(ps, i) ==
  IF \E j \in i..Len(ps) : RowFilled(ps[j])
  THEN CHOOSE j \in i..Len(ps) : RowFilled(ps[j]) /\ \A q \in i..(j - 1) : ~RowFilled(ps[q])
  ELSE Len(ps) + 1

\* page.tsx 454-459 and 477-490: the head of the loops at row i, repetition
\* repeat: manual test `id` is issued, or the loops are left, stopUIUpdateLoop
\* clears the interval and asks for a frame, and the run ends. logs, buffer,
\* request, interval and running are logsRef.current,
\* graphDataBufferRef.current, uiUpdateRequestRef.current,
\* uiUpdateIntervalRef.current and isRunning as the code before it left them.
ManualProceed(ps, i, repeat, id, logs, buffer, request, interval, running) ==
  /\ graphDataBufferRef' = buffer
  /\ callId' = id
  /\ IF i <= Len(ps)
     THEN /\ manualPc' = "call"
          /\ manualI' = i
          /\ manualRepeat' = repeat
          /\ logsRef' = Append(logs, "manualTest")
          /\ uiUpdateRequestRef' = request
          /\ uiUpdateIntervalRef' = interval
          /\ isRunning' = running
     ELSE /\ manualPc' = "done"
          /\ manualI' = i
          /\ manualRepeat' = 0
          /\ logsRef' = Append(logs, IF id > 1 THEN "manualCompleted" ELSE "noManualTests")
          /\ uiUpdateRequestRef' = ManualRun
          /\ uiUpdateIntervalRef' = 0
          /\ isRunning' = FALSE

\* page.tsx 430-459: runManualTests up to its first await (or to its end, when
\* no row is filled in), with the rows ps and the repeat count k of the render
\* it was started in.
RunManualTests(ps, k) ==
  /\ settling = 0
  /\ manualPc # "call"
  /\ responseTimeData' = <<>>
  /\ graphSequenceRef' = 0
  /\ manualResultsRef' = <<>>
  /\ statsRef' = ZeroStats
  /\ manualParams' = ps
  /\ manualRepeatCount' = k
  /\ apiLogsRef' = <<>>
  /\ apiLogs' = <<>>
  /\ closure' = [closure EXCEPT ![ManualRun] = [resultsLength |-> Len(results),
                                                graphMaxPoints |-> graphMaxPoints]]
  /\ ManualProceed(ps, NextRow(ps, 1), 0, 1, <<"manualStart">>, <<>>,
                   uiUpdateRequestRef, ManualRun, TRUE)
  /\ UNCHANGED <<abortControllerRef, aborted, pc, count, loopI, correct,
                 inFlight, settling, batchResultsRef, issued, completed,
                 recorded, configErrors, results, stats, graphMaxPoints,
                 activeTab>>
  /\ UNCHANGED executorVars
  /\ UNCHANGED libVars
  /\ UNCHANGED modeVars

\* The rows and the repeat counts of the manual runs.
MaxManualRepeat == 2
ManualParamChoices ==
  { <<NoParams>>, <<KnownGood>>, <<NoParams, KnownGood>> }

\* page.tsx 1111-1121: the Run Manual Test button, shown in the manual tab
\* and disabled while isRunning.
RunManualTestButton ==
  /\ activeTab = "manual"
  /\ ~isRunning
  /\ \E ps \in ManualParamChoices, k \in 1..MaxManualRepeat : RunManualTests(ps, k)

\* page.tsx 460-475 after the await: the result of the manual test is
\* recorded, then the loops go on.
ManualCallSettles(resp) ==
  /\ settling = 0
  /\ manualPc = "call"
  /\ LET res == MakeApiCallWithParams(callId, manualParams[manualI], resp)
         buffer == Append(graphDataBufferRef, GraphPoint(graphSequenceRef + 1, res))
         last == manualRepeat + 1 >= manualRepeatCount
     IN /\ manualResultsRef' = Append(manualResultsRef, res)
        /\ statsRef' = RecordCallStats(statsRef, res)
        /\ graphSequenceRef' = graphSequenceRef + 1
        /\ ManualProceed(manualParams,
                         IF last THEN NextRow(manualParams, manualI + 1) ELSE manualI,
                         IF last THEN 0 ELSE manualRepeat + 1,
                         callId + 1, CallLog(logsRef, resp), buffer,
                         RequestAfterPush(ManualRun, buffer), uiUpdateIntervalRef,
                         isRunning)
  /\ UNCHANGED <<abortControllerRef, aborted, pc, count, loopI, correct,
                 inFlight, settling, batchResultsRef, issued, completed,
                 recorded, configErrors, responseTimeData, results, stats,
                 graphMaxPoints, closure, activeTab, manualParams,
                 manualRepeatCount>>
  /\ UNCHANGED executorVars
  /\ UNCHANGED libVars
  /\ UNCHANGED apiLogVars
  /\ UNCHANGED modeVars

\* page.tsx 1123-1138: the Run Batch Test and Stop buttons are shown in the
\* batch tab.
BatchTabRun == activeTab = "batch" /\ RunBatchTestButton
BatchTabStop == activeTab = "batch" /\ StopBatchCalls

\* The runs started from the two tabs, every call answered alike.
TabSettles ==
  \/ FlushSettles
  \/ \E r \in Runs : AbortSettles(r)
  \/ ManualCallSettles(FlushResponse)

NextManual ==
  \/ \E tab \in {"manual", "batch"} : SetActiveTab(tab)
  \/ RunManualTestButton
  \/ BatchTabRun
  \/ BatchTabStop
  \/ ClearResults
  \/ TabSettles

SpecManual == Init /\ [][NextManual]_vars

\* ------------------------------------------- page.tsx: executor rejections
\* page.tsx 543: the promise of the canary's makeApiCallWithParams rejects.
\* The await is outside the try block (560), so runBatchCalls rejects too:
\* nothing is recorded and the finally block is not run.
CanaryRejects(r) ==
  /\ settling = 0
  /\ pc[r] = "canary"
  /\ pc' = [pc EXCEPT ![r] = "done"]
  /\ inFlight' = [inFlight EXCEPT ![r] = {}]
  /\ completed' = [completed EXCEPT ![r] = Append(@, 1)]
  /\ UNCHANGED <<isRunning, abortControllerRef, aborted, count, loopI, correct,
                 settling, batchResultsRef, statsRef, graphSequenceRef, logsRef,
                 issued, recorded, configErrors>>
  /\ UNCHANGED uiVars
  /\ UNCHANGED modeVars
  /\ UNCHANGED sideVars

\* page.tsx 564 and 578-603: the promise of makeApiCall rejects inside the
\* loop; the catch block logs the error and the finally block ends the run.
CallRejects(r) ==
  /\ settling = 0
  /\ pc[r] = "call"
  /\ LET c == CHOOSE x \in inFlight[r] : TRUE
     IN completed' = [completed EXCEPT ![r] = Append(@, c.id)]
  /\ Finally(r, Append(logsRef, "batchError"), graphDataBufferRef)
  /\ UNCHANGED <<aborted, count, loopI, correct, settling, batchResultsRef,
                 statsRef, graphSequenceRef, issued, recorded, configErrors,
                 results, stats, graphMaxPoints, closure>>
  /\ UNCHANGED modeVars
  /\ UNCHANGED sideVars

\* The runs in which every call fails, in one of the ways a call can fail.
FaultSettles ==
  \/ \E r \in Runs : TestValuesSettle(r, FlushTestValues)
  \/ \E r \in Runs, resp \in FailureResponses : CanarySettles(r, resp, FlushParams)
  \/ \E r \in Runs, resp \in FailureResponses : CallSettles(r, resp, FlushParams)
  \/ \E r \in Runs : AbortSettles(r)
  \/ \E r \in Runs : CanaryRejects(r)
  \/ \E r \in Runs : CallRejects(r)

\* Runs long enough for a call of the loop to have a successor.
MaxFaultCount == 3

FaultRunBatchTestButton ==
  /\ ~isRunning
  /\ RunBatchCalls(MaxFaultCount)

NextFaults ==
  \/ FaultRunBatchTestButton
  \/ StopBatchCalls
  \/ ClearResults
  \/ FaultSettles

SpecFaults == Init /\ [][NextFaults]_vars

\* Runs that do not overlap: a run is started when no invocation is live.
NoneLive == manualPc # "call" /\ \A r \in Runs : ~Live(r)

SequenceSettles ==
  \/ Settles
  \/ \E resp \in Responses : ManualCallSettles(resp)

NextSequence ==
  \/ \E tab \in {"manual", "batch"} : SetActiveTab(tab)
  \/ NoneLive /\ RunManualTestButton
  \/ NoneLive /\ BatchTabRun
  \/ BatchTabStop
  \/ ClearResults
  \/ SequenceSettles

SpecSequence == Init /\ [][NextSequence]_vars

\* ------------------------------------------ one call of the executor alone
\* The requests of the call: the parameters it is made with, the way to the
\* proxy route, and what the target server does.
ProxyCalls ==
  [params : {KnownGood, [dateString |-> "1400-01", nin |-> "100000000"],
             [dateString |-> "1444-01", nin |-> ""]},
   link : Links,
   target : TargetOutcomes]

InitExecutor ==
  /\ InitHome
  /\ proxyCall \in ProxyCalls
  /\ apiResult = NoResult
  /\ LibIdle

\* What fetch gives the call.
Fetched == ProxyFetch(proxyCall.params, proxyCall.link, proxyCall.target)

\* page.tsx 221-413: makeApiCallWithParams returns.
ExecutorReturns ==
  /\ apiResult = NoResult
  /\ apiResult' = MakeApiCallWithParams(1, proxyCall.params, Fetched)
  /\ UNCHANGED <<isRunning, abortControllerRef, aborted, pc, count, loopI,
                 correct, inFlight, settling, batchResultsRef, statsRef,
                 graphSequenceRef, logsRef, issued, completed, recorded,
                 configErrors, proxyCall>>
  /\ UNCHANGED uiVars
  /\ UNCHANGED manualVars
  /\ UNCHANGED libVars
  /\ UNCHANGED apiLogVars
  /\ UNCHANGED modeVars

SpecExecutor == InitExecutor /\ [][ExecutorReturns]_vars

\* =================================================== part_002: batch modes
pageVars == <<batchResultsRef, statsRef, logsRef, uiVars>>

\* part_002 1127-1137 and 1139-1175: the Batch Mode select and the Number of
\* Threads input (shown in parallel mode), both disabled while isRunning.
SetBatchMode(m) ==
  /\ settling = 0
  /\ ~isRunning
  /\ batchMode # m
  /\ batchMode' = m
  /\ UNCHANGED <<isRunning, abortControllerRef, aborted, pc, count,
                 loopI, correct, inFlight, settled, settling, graphSequenceRef,
                 threadCount, batchResults, localStats, mode, threads, issued,
                 completed, recorded, configErrors>>
  /\ UNCHANGED pageVars
  /\ UNCHANGED sideVars

SetThreadCount(k) ==
  /\ settling = 0
  /\ ~isRunning
  /\ batchMode = "parallel"
  /\ threadCount' = Max(1, Min(50, k))
  /\ UNCHANGED <<isRunning, abortControllerRef, aborted, pc, count,
                 loopI, correct, inFlight, settled, settling, graphSequenceRef,
                 batchMode, batchResults, localStats, mode, threads, issued,
                 completed, recorded, configErrors>>
  /\ UNCHANGED pageVars
  /\ UNCHANGED sideVars

\* part_002 493-511: up to the await of fetch('/api/test-values'). The
\* invocation keeps the batchMode and threadCount of the render it was
\* created in.
ModesRunBatchCalls(c) ==
  /\ settling = 0
  /\ Free(ModeRuns) # {}
  /\ LET r == FirstFree(ModeRuns) IN
     /\ isRunning' = TRUE
     /\ graphSequenceRef' = 0
     /\ abortControllerRef' = r
     /\ aborted' = [aborted EXCEPT ![r] = FALSE]
     /\ count' = [count EXCEPT ![r] = c]
     /\ mode' = [mode EXCEPT ![r] = batchMode]
     /\ threads' = [threads EXCEPT ![r] = threadCount]
     /\ pc' = [pc EXCEPT ![r] = "testValues"]
     /\ loopI' = [loopI EXCEPT ![r] = 0]
     /\ correct' = [correct EXCEPT ![r] = NoParams]
     /\ inFlight' = [inFlight EXCEPT ![r] = {}]
     /\ settled' = [settled EXCEPT ![r] = {}]
     /\ batchResults' = [batchResults EXCEPT ![r] = <<>>]
     /\ localStats' = [localStats EXCEPT ![r] =
                        [successCount |-> 0, errorCount |-> 0, totalTime |-> 0]]
     /\ issued' = IssuedWithout(r)
     /\ completed' = [completed EXCEPT ![r] = <<>>]
     /\ recorded' = [recorded EXCEPT ![r] = <<>>]
     /\ configErrors' = [configErrors EXCEPT ![r] = 0]
  /\ UNCHANGED <<settling, batchMode, threadCount>>
  /\ UNCHANGED pageVars
  /\ UNCHANGED sideVars

\* part_002 1188-1194: the Run Batch Test button.
ModesRunBatchTestButton ==
  /\ ~isRunning
  /\ \E c \in 1..MaxModeCount : ModesRunBatchCalls(c)

\* part_002 718-752: the finally block.
ModesFinally(r) ==
  /\ pc' = [pc EXCEPT ![r] = "done"]
  /\ inFlight' = [inFlight EXCEPT ![r] = {}]
  /\ isRunning' = FALSE
  /\ abortControllerRef' = 0
  /\ UNCHANGED <<issued, loopI>>

\* The most calls one batch can hold within the bounds.
MaxThreadsUsed == Max(1, Min(Max(DefaultThreadCount, MaxThreads), MaxModeCount - 1))

\* A variant that rounds the number of batches down.
TotalBatchesFloor(remainingCalls, k) == remainingCalls \div k

\* A variant whose batches hold one call more than threadCount.
EndIdxOneMore(batch, k, remainingCalls) == Min(batch * k + k + 1, remainingCalls)

\* part_002 653-660: the batches of the parallel branch.
TotalBatches(remainingCalls, k) == (remainingCalls + k - 1) \div k
StartIdx(batch, k) == batch * k
EndIdx(batch, k, remainingCalls) == Min(StartIdx(batch, k) + k, remainingCalls)

\* The calls of batch number batch: ids startIdx + 2 .. endIdx + 1, each with
\* parameters of its own.
BatchCalls(r, batch, ps) ==
  { Call(r, i + 2, ps[i - StartIdx(batch, threads[r]) + 1], "random") :
      i \in StartIdx(batch, threads[r]) .. (EndIdx(batch, threads[r], count[r] - 1) - 1) }

\* The calls of S in increasing id, as a sequence issued one after the other.
RECURSIVE InIdOrder(_)
InIdOrder(S) ==
  IF S = {} THEN <<>>
  ELSE LET c == CHOOSE x \in S : \A y \in S : x.id <= y.id
       IN <<c>> \o InIdOrder(S \ {c})

\* part_002 585-598 and 653-668: the head of the loop of the invocation's
\* branch: the next call (sequential) or the next batch (parallel) is
\* issued, or the loop is left into the finally block.
ModesProceed(r, i, ps) ==
  IF mode[r] = "sequential"
  THEN IF i < count[r] - 1 /\ ~aborted[r]
       THEN /\ inFlight' = [inFlight EXCEPT ![r] = {Call(r, i + 2, ps[1], "random")}]
            /\ issued' = Append(issued, Call(r, i + 2, ps[1], "random"))
            /\ loopI' = [loopI EXCEPT ![r] = i]
            /\ pc' = [pc EXCEPT ![r] = "call"]
            /\ UNCHANGED <<isRunning, abortControllerRef>>
       ELSE ModesFinally(r)
  ELSE IF i < TotalBatches(count[r] - 1, threads[r]) /\ ~aborted[r]
       THEN /\ inFlight' = [inFlight EXCEPT ![r] = BatchCalls(r, i, ps)]
            /\ issued' = issued \o InIdOrder(BatchCalls(r, i, ps))
            /\ loopI' = [loopI EXCEPT ![r] = i]
            /\ pc' = [pc EXCEPT ![r] = "batch"]
            /\ UNCHANGED <<isRunning, abortControllerRef>>
       ELSE ModesFinally(r)

\* part_002 552: makeApiCallWithParams(1, correctDateString, correctNIN, ...).
ModesCanaryCall(r, params) == Call(r, 1, params, "supplied")

\* part_002 512-552: fetch('/api/test-values') has settled with tv.
ModesTestValuesSettle(r, tv) ==
  /\ settling = 0
  /\ pc[r] = "testValues"
  /\ LET ok == tv.kind = "ok"
         correctDateString == IF ok THEN tv.dateString ELSE ""
         correctNIN == IF ok THEN tv.nin ELSE ""
     IN IF correctDateString = "" \/ correctNIN = ""
        THEN /\ configErrors' = [configErrors EXCEPT ![r] = @ + 1]
             /\ isRunning' = FALSE
             /\ pc' = [pc EXCEPT ![r] = "done"]
             /\ UNCHANGED <<abortControllerRef, correct, inFlight, issued, loopI>>
        ELSE /\ correct' = [correct EXCEPT ![r] =
                             [dateString |-> correctDateString, nin |-> correctNIN]]
             /\ UNCHANGED configErrors
             /\ IF ~aborted[r]
                THEN /\ inFlight' = [inFlight EXCEPT ![r] =
                                      {ModesCanaryCall(r, correct'[r])}]
                     /\ issued' = Append(issued, ModesCanaryCall(r, correct'[r]))
                     /\ pc' = [pc EXCEPT ![r] = "canary"]
                     /\ UNCHANGED <<isRunning, abortControllerRef, loopI>>
                ELSE \E ps \in [1..1 -> RandomParams] : ModesProceed(r, 0, ps)
  /\ UNCHANGED <<aborted, count, settled, settling, graphSequenceRef,
                 batchMode, threadCount, batchResults, localStats, mode, threads,
                 completed, recorded>>
  /\ UNCHANGED pageVars
  /\ UNCHANGED sideVars

\* part_002 553-558, 599-604 and 673-680: one result is pushed on the local
\* batchResults and counted.
PushLocal(ls, res) ==
  [successCount |-> ls.successCount + (IF res.status = "success" THEN 1 ELSE 0),
   errorCount |-> ls.errorCount + (IF res.status = "error" THEN 1 ELSE 0),
   totalTime |-> ls.totalTime + res.duration]

RECURSIVE PushAllLocal(_, _)
PushAllLocal(ls, rs) ==
  IF rs = <<>> THEN ls ELSE PushAllLocal(PushLocal(ls, Head(rs)), Tail(rs))

Ids(rs) == [j \in 1..Len(rs) |-> rs[j].id]

\* The results rs are recorded, in this order, by invocation r.
ModesRecord(r, rs) ==
  /\ batchResults' = [batchResults EXCEPT ![r] = @ \o rs]
  /\ localStats' = [localStats EXCEPT ![r] = PushAllLocal(@, rs)]
  /\ graphSequenceRef' = graphSequenceRef + Len(rs)
  /\ recorded' = [recorded EXCEPT ![r] = @ \o Ids(rs)]

\* part_002 552-582 (canary) and 598-626 (sequential branch) after the
\* await: the call in flight has settled with resp.
ModesOneSettled(r, resp, ps) ==
  LET c == CHOOSE x \in inFlight[r] : TRUE
      res == MakeApiCallWithParams(c.id, CallParams(c), resp)
  IN /\ ModesRecord(r, <<res>>)
     /\ completed' = [completed EXCEPT ![r] = Append(@, c.id)]
     /\ settled' = settled
     /\ ModesProceed(r, IF pc[r] = "canary" THEN 0 ELSE loopI[r] + 1, ps)

ModesCanarySettles(r, resp, ps) ==
  /\ settling = 0
  /\ pc[r] = "canary"
  /\ ModesOneSettled(r, resp, ps)
  /\ UNCHANGED <<aborted, count, correct, settling, batchMode,
                 threadCount, mode, threads, configErrors>>
  /\ UNCHANGED pageVars
  /\ UNCHANGED sideVars

ModesCallSettles(r, resp, ps) ==
  /\ settling = 0
  /\ pc[r] = "call"
  /\ ModesOneSettled(r, resp, ps)
  /\ UNCHANGED <<aborted, count, correct, settling, batchMode,
                 threadCount, mode, threads, configErrors>>
  /\ UNCHANGED pageVars
  /\ UNCHANGED sideVars

\* The results S in the order ids names them.
RECURSIVE InOrderOf(_, _)
InOrderOf(ids, S) ==
  IF ids = <<>> THEN <<>>
  ELSE (IF \E x \in S : x.id = Head(ids)
        THEN <<CHOOSE x \in S : x.id = Head(ids)>> ELSE <<>>)
       \o InOrderOf(Tail(ids), S)

\* A variant that hands the results over in the order the calls completed.
AllSettledByCompletion(r, chunk) == InOrderOf(completed'[r], chunk)

\* part_002 668: Promise.allSettled(batchPromises) resolves to the results
\* in the order of batchPromises, the order the calls were issued in.
AllSettledResults(r, chunk) == InIdOrder(chunk)

\* A variant that goes on with the next batch and leaves the results of this
\* one unrecorded.
BatchSettledUnrecorded(r, chunk, ps) ==
  /\ UNCHANGED <<batchResults, localStats, graphSequenceRef, recorded>>
  /\ settled' = [settled EXCEPT ![r] = chunk]
  /\ ModesProceed(r, loopI[r] + 1, ps)

\* part_002 668-712: Promise.allSettled resumes the invocation once every
\* promise of the batch has settled; forEach then records the results in the
\* order of batchPromises, and the loop goes on with the next batch.
BatchSettled(r, chunk, ps) ==
  /\ ModesRecord(r, AllSettledResults(r, chunk))
  /\ settled' = [settled EXCEPT ![r] = {}]
  /\ ModesProceed(r, loopI[r] + 1, ps)

\* One call of the batch in flight settles with resp.
ModesBatchCallSettles(r, c, resp, ps) ==
  /\ settling = 0
  /\ pc[r] = "batch"
  /\ c \in inFlight[r]
  /\ completed' = [completed EXCEPT ![r] = Append(@, c.id)]
  /\ LET res == MakeApiCallWithParams(c.id, CallParams(c), resp) IN
     IF inFlight[r] = {c}
     THEN BatchSettled(r, settled[r] \cup {res}, ps)
     ELSE /\ inFlight' = [inFlight EXCEPT ![r] = @ \ {c}]
          /\ settled' = [settled EXCEPT ![r] = @ \cup {res}]
          /\ UNCHANGED <<batchResults, localStats, graphSequenceRef, recorded,
                         issued, loopI, pc, isRunning, abortControllerRef>>
  /\ UNCHANGED <<aborted, count, correct, settling, batchMode,
                 threadCount, mode, threads, configErrors>>
  /\ UNCHANGED pageVars
  /\ UNCHANGED sideVars

\* part_002 350-394: abort() rejects every pending fetch of the run, in the
\* order the calls were issued; each call returns 'Request aborted', and the
\* invocation goes on in the microtasks of the task that called abort().
ModesAbortSettles(r) ==
  /\ settling = r
  /\ settling' = 0
  /\ \E ps \in [1..1 -> RandomParams] :
       IF pc[r] = "batch"
       THEN /\ completed' = [completed EXCEPT ![r] = @ \o Ids(InIdOrder(inFlight[r]))]
            /\ BatchSettled(r, settled[r] \cup
                 { MakeApiCallWithParams(c.id, CallParams(c), AbortResponse) :
                     c \in inFlight[r] }, ps)
       ELSE ModesOneSettled(r, AbortResponse, ps)
  /\ UNCHANGED <<aborted, count, correct, batchMode, threadCount,
                 mode, threads, configErrors>>
  /\ UNCHANGED pageVars
  /\ UNCHANGED sideVars

\* part_002 405-412 behind the Stop button.
ModesStopBatchCalls ==
  /\ settling = 0
  /\ isRunning
  /\ abortControllerRef # 0
  /\ aborted' = [aborted EXCEPT ![abortControllerRef] = TRUE]
  /\ settling' = IF inFlight[abortControllerRef] # {} THEN abortControllerRef ELSE 0
  /\ abortControllerRef' = 0
  /\ isRunning' = FALSE
  /\ UNCHANGED <<pc, count, loopI, correct, inFlight, settled,
                 graphSequenceRef, batchMode, threadCount, batchResults,
                 localStats, mode, threads, issued, completed, recorded,
                 configErrors>>
  /\ UNCHANGED pageVars
  /\ UNCHANGED sideVars

\* part_002 755-766 behind the Clear Results button.
ModesClearResults ==
  /\ settling = 0
  /\ ~isRunning
  /\ graphSequenceRef' = 0
  /\ UNCHANGED <<isRunning, abortControllerRef, aborted, pc, count,
                 loopI, correct, inFlight, settled, settling, batchMode,
                 threadCount, batchResults, localStats, mode, threads, issued,
                 completed, recorded, configErrors>>
  /\ UNCHANGED pageVars
  /\ UNCHANGED sideVars

ModesSettles ==
  \/ \E r \in ModeRuns, tv \in TestValuesResponses : ModesTestValuesSettle(r, tv)
  \/ \E r \in ModeRuns, resp \in Responses, ps \in [1..MaxThreadsUsed -> RandomParams] :
       ModesCanarySettles(r, resp, ps)
  \/ \E r \in ModeRuns, resp \in Responses, ps \in [1..MaxThreadsUsed -> RandomParams] :
       ModesCallSettles(r, resp, ps)
  \/ \E r \in ModeRuns, resp \in Responses, ps \in [1..MaxThreadsUsed -> RandomParams] :
       \E c \in inFlight[r] : ModesBatchCallSettles(r, c, resp, ps)
  \/ \E r \in ModeRuns : ModesAbortSettles(r)

ModesNext ==
  \/ \E m \in {"sequential", "parallel"} : SetBatchMode(m)
  \/ \E k \in 1..MaxThreads : SetThreadCount(k)
  \/ ModesRunBatchTestButton
  \/ ModesStopBatchCalls
  \/ ModesClearResults
  \/ ModesSettles

SpecModes == Init /\ [][ModesNext]_vars

\* ======================================================= numeric inputs
\* Everything the input handlers leave alone.
runVars == <<isRunning, abortControllerRef, aborted, pc, count, loopI, correct,
             inFlight, settling, batchResultsRef, statsRef, graphSequenceRef,
             logsRef, issued, completed, recorded, configErrors, apiLogsRef,
             apiLogs>>

\* A limit that lets values below the minimum through.
ClampNoMinimum(lo, hi, n) == Min(hi, n)

\* page.tsx 1078 (1030; part_002 1150): Math.max(lo, Math.min(hi, n)).
Clamp(lo, hi, n) == Max(lo, Min(hi, n))

\* page.tsx 1072-1081: what onChange leaves in the number state for the text
\* inputValue; an empty or unreadable text leaves it as it was.
ChangedValue(inputValue, old, lo, hi) ==
  IF inputValue # <<>> /\ ~ParseInt(inputValue).isNaN
  THEN Clamp(lo, hi, ParseInt(inputValue).value)
  ELSE old

\* page.tsx 1082-1100: the number onBlur settles on for the text inputValue.
BlurredValue(inputValue, lo, hi) ==
  IF inputValue = <<>> \/ inputValue = <<"0">> THEN lo
  ELSE LET value == ParseInt(inputValue)
       IN IF value.isNaN \/ value.value < lo THEN lo
          ELSE IF value.value > hi THEN hi
          ELSE value.value

\* Texts typed into the inputs: empty, zero, negative, non-numeric, padded,
\* in range, at the limits and beyond them.
InputTexts ==
  { <<>>, <<"0">>, <<"-", "5">>, <<"a", "b", "c">>, <<"2">>, <<" ", "0", "7">>,
    <<"1", "e", "5">>, <<"5", "0">>, <<"5", "1">>,
    <<"1", "0", "0", "0", "0">>, <<"1", "0", "0", "0", "1">>,
    <<"5", "0", "0", "0", "0">>, <<"5", "0", "0", "0", "1">>,
    <<"9", "9", "9", "9", "9", "9", "9">> }

\* page.tsx 1067-1103: the Number of API Calls input of the batch tab,
\* disabled while isRunning.
CallCountChange(inputValue) ==
  /\ settling = 0
  /\ ~isRunning
  /\ activeTab = "batch"
  /\ callCountInput' = inputValue
  /\ callCount' = ChangedValue(inputValue, callCount, 1, 10000)
  /\ UNCHANGED <<threadCountInput, manualRepeatCountInput>>
  /\ UNCHANGED <<randomVars, retryVars>>
  /\ UNCHANGED <<runVars, uiVars, manualVars, executorVars, modeVars>>

CallCountBlur ==
  /\ settling = 0
  /\ ~isRunning
  /\ activeTab = "batch"
  /\ callCount' = BlurredValue(callCountInput, 1, 10000)
  /\ callCountInput' = NumberToString(callCount')
  /\ UNCHANGED <<threadCountInput, manualRepeatCountInput>>
  /\ UNCHANGED <<randomVars, retryVars>>
  /\ UNCHANGED <<runVars, uiVars, manualVars, executorVars, modeVars>>

\* part_002 1139-1175: the Number of Threads input, shown in parallel mode and
\* disabled while isRunning.
ThreadCountChange(inputValue) ==
  /\ settling = 0
  /\ ~isRunning
  /\ batchMode = "parallel"
  /\ threadCountInput' = inputValue
  /\ threadCount' = ChangedValue(inputValue, threadCount, 1, 50)
  /\ UNCHANGED <<callCount, callCountInput, manualRepeatCountInput>>
  /\ UNCHANGED <<batchMode, batchResults, localStats, settled, mode, threads>>
  /\ UNCHANGED <<randomVars, retryVars>>
  /\ UNCHANGED <<runVars, uiVars, manualVars, executorVars>>

ThreadCountBlur ==
  /\ settling = 0
  /\ ~isRunning
  /\ batchMode = "parallel"
  /\ threadCount' = BlurredValue(threadCountInput, 1, 50)
  /\ threadCountInput' = NumberToString(threadCount')
  /\ UNCHANGED <<callCount, callCountInput, manualRepeatCountInput>>
  /\ UNCHANGED <<batchMode, batchResults, localStats, settled, mode, threads>>
  /\ UNCHANGED <<randomVars, retryVars>>
  /\ UNCHANGED <<runVars, uiVars, manualVars, executorVars>>

\* page.tsx 1019-1057: the Repeat Count input of the manual tab, disabled
\* while isRunning; onChange rewrites a text above the maximum.
ManualRepeatCountChange(inputValue) ==
  /\ settling = 0
  /\ ~isRunning
  /\ activeTab = "manual"
  /\ manualRepeatCount' = ChangedValue(inputValue, manualRepeatCount, 1, 50000)
  /\ manualRepeatCountInput' =
       IF inputValue # <<>> /\ ~ParseInt(inputValue).isNaN
                            /\ ParseInt(inputValue).value > 50000
       THEN NumberToString(50000) ELSE inputValue
  /\ UNCHANGED <<callCount, callCountInput, threadCountInput>>
  /\ UNCHANGED <<activeTab, manualPc, manualParams, manualI, manualRepeat,
                 callId, manualResultsRef>>
  /\ UNCHANGED <<randomVars, retryVars>>
  /\ UNCHANGED <<runVars, uiVars, executorVars, modeVars>>

ManualRepeatCountBlur ==
  /\ settling = 0
  /\ ~isRunning
  /\ activeTab = "manual"
  /\ manualRepeatCount' = BlurredValue(manualRepeatCountInput, 1, 50000)
  /\ manualRepeatCountInput' = NumberToString(manualRepeatCount')
  /\ UNCHANGED <<callCount, callCountInput, threadCountInput>>
  /\ UNCHANGED <<activeTab, manualPc, manualParams, manualI, manualRepeat,
                 callId, manualResultsRef>>
  /\ UNCHANGED <<randomVars, retryVars>>
  /\ UNCHANGED <<runVars, uiVars, executorVars, modeVars>>

\* page.tsx 1124-1130: Run Batch Test starts runBatchCalls(callCount).
InputsRunBatchTestButton ==
  /\ activeTab = "batch"
  /\ ~isRunning
  /\ ~(callCount < 1)
  /\ RunBatchCalls(callCount)

NextInputs ==
  \/ \E tab \in {"manual", "batch"} : SetActiveTab(tab)
  \/ \E m \in {"sequential", "parallel"} : SetBatchMode(m)
  \/ \E inputValue \in InputTexts : CallCountChange(inputValue)
  \/ CallCountBlur
  \/ \E inputValue \in InputTexts : ThreadCountChange(inputValue)
  \/ ThreadCountBlur
  \/ \E inputValue \in InputTexts : ManualRepeatCountChange(inputValue)
  \/ ManualRepeatCountBlur
  \/ InputsRunBatchTestButton

SpecInputs == Init /\ [][NextInputs]_vars

\* ==================================================== random parameters
\* Math.random() returns a number in [0, 1): here a multiple of 1/RandomGrain.
RandomGrain == 1200
RollNumerators == {0, 1, 11, 12, 99, 100, 599, 600, 1100, 1199}
Rolls == {[num |-> k, den |-> RandomGrain] : k \in RollNumerators}

\* Math.floor(Math.random() * n) for the roll r: the quotient of r.num * n by
\* r.den, taken in two parts so that the product stays small.
FloorOfRollTimes(r, n) ==
  r.num * (n \div r.den) + (r.num * (n % r.den)) \div r.den

\* A padStart that leaves the text as it is.
NoPadStart(text, targetLength, padString) == text

\* String.prototype.padStart(targetLength, padString) with a one-character pad.
PadStart(text, targetLength, padString) ==
  [j \in 1..(Max(targetLength, Len(text)) - Len(text)) |-> padString] \o text

\* page.tsx 183-187.
GenerateRandomDateString(yearRoll, monthRoll) ==
  LET year == FloorOfRollTimes(yearRoll, 100) + 1400
      month == PadStart(NumberToString(FloorOfRollTimes(monthRoll, 12) + 1), 2, "0")
  IN NumberToString(year) \o <<"-">> \o month

\* page.tsx 189-191.
GenerateRandomNIN(roll) ==
  NumberToString(FloorOfRollTimes(roll, 900000000) + 100000000)

\* String.prototype.trim().
RECURSIVE SkipTrailingWhiteSpace(_)
SkipTrailingWhiteSpace(t) ==
  IF t # <<>> /\ t[Len(t)] = " " THEN SkipTrailingWhiteSpace(SubSeq(t, 1, Len(t) - 1))
  ELSE t
Trim(t) == SkipTrailingWhiteSpace(SkipWhiteSpace(t))

AllDigits(t) == \A j \in DOMAIN t : IsDigit(t[j])

\* validation.ts 10-32 with constants.ts 26 (/^\d{4}-\d{2}$/).
ValidateDateString(dateString) ==
  LET trimmed == Trim(dateString)
      matches == /\ Len(trimmed) = 7
                 /\ AllDigits(SubSeq(trimmed, 1, 4))
                 /\ trimmed[5] = "-"
                 /\ AllDigits(SubSeq(trimmed, 6, 7))
      year == DigitsValue(SubSeq(trimmed, 1, 4))
      month == DigitsValue(SubSeq(trimmed, 6, 7))
  IN IF trimmed = <<>> THEN [valid |-> FALSE, error |-> "DateString is required"]
     ELSE IF ~matches
       THEN [valid |-> FALSE, error |-> "DateString must be in YYYY-MM format (e.g., 1444-01)"]
     ELSE IF year < 1400 \/ year > 1499
       THEN [valid |-> FALSE, error |-> "Year must be between 1400 and 1499"]
     ELSE IF month < 1 \/ month > 12
       THEN [valid |-> FALSE, error |-> "Month must be between 01 and 12"]
     ELSE [valid |-> TRUE, error |-> ""]

\* validation.ts 37-49 with constants.ts 27 (/^\d{9,10}$/).
ValidateNIN(nin) ==
  LET trimmed == Trim(nin)
  IN IF trimmed = <<>> THEN [valid |-> FALSE, error |-> "NIN is required"]
     ELSE IF ~(Len(trimmed) \in 9..10 /\ AllDigits(trimmed))
       THEN [valid |-> FALSE, error |-> "NIN must be 9-10 digits"]
     ELSE [valid |-> TRUE, error |-> ""]

\* validation.ts 54-74.
ValidateApiParams(dateString, nin) ==
  LET dateValidation == ValidateDateString(dateString)
      ninValidation == ValidateNIN(nin)
      errors == (IF ~dateValidation.valid THEN <<dateValidation.error>> ELSE <<>>)
                \o (IF ~ninValidation.valid THEN <<ninValidation.error>> ELSE <<>>)
  IN [valid |-> Len(errors) = 0, errors |-> errors]

InitRandom ==
  /\ InitHome
  /\ proxyCall = NoCall
  /\ apiResult = NoResult
  /\ randomRolls \in [year : Rolls, month : Rolls, nin : Rolls]
  /\ generated = NoneGenerated
  /\ RetryIdle

\* page.tsx 183-191: one pair of random parameters is generated.
GenerateRandomParams ==
  /\ generated = NoneGenerated
  /\ generated' = [dateString |-> GenerateRandomDateString(randomRolls.year,
                                                           randomRolls.month),
                   nin |-> GenerateRandomNIN(randomRolls.nin)]
  /\ UNCHANGED <<randomRolls, inputVars, threadCount, retryVars>>
  /\ UNCHANGED <<batchMode, batchResults, localStats, settled, mode, threads>>
  /\ UNCHANGED <<runVars, uiVars, manualVars, executorVars>>

SpecRandom == InitRandom /\ [][GenerateRandomParams]_vars

\* ================================================== part_003: withRetry
MaxMaxRetries == 3

\* The configurations withRetry is called with: the default one, the default
\* one with fewer retries, and one with its own delay and status codes.
RetryConfigs ==
  {[DEFAULT_RETRY_CONFIG EXCEPT !.maxRetries = m] : m \in 0..MaxMaxRetries}
  \cup {[maxRetries |-> m, retryDelay |-> 1, retryableStatusCodes |-> <<404>>] :
          m \in {1, MaxMaxRetries}}

\* What one invocation of fn does.
FnOutcomes ==
  { FnResult(1), FnError(503, ""), FnError(0, "ETIMEDOUT"), FnError(404, ""),
    FnError(0, "ECONNREFUSED") }

RECURSIVE Pow2(_)
Pow2(n) == IF n = 0 THEN 1 ELSE 2 * Pow2(n - 1)

\* A loop that stops one attempt early.
LoopConditionStrict(config, a) == a < config.maxRetries

\* part_003 125: attempt <= config.maxRetries.
LoopCondition(config, a) == a <= config.maxRetries

\* part_003 137-141: what withRetry takes for retryable.
IsRetryable(config, error) ==
  \/ error.statusCode \in Range(config.retryableStatusCodes)
  \/ error.code # "" /\ error.code \in {"ETIMEDOUT", "ECONNRESET", "ENOTFOUND"}

\* errors.ts 41-60.
IsRetryableError(error) ==
  LET errorCode == error.code
      statusCode == error.statusCode
  IN IF errorCode # "" /\ errorCode \in {"ETIMEDOUT", "ECONNRESET", "ENOTFOUND",
                                         "ECONNREFUSED"}
     THEN TRUE
     ELSE statusCode # 0 /\ statusCode \in {500, 502, 503, 504, 408}

\* A delay that grows by retryDelay with every attempt.
LinearDelay(config, a) == config.retryDelay * (a + 1)

\* part_003 149: config.retryDelay * Math.pow(2, attempt).
BackoffDelay(config, a) == config.retryDelay * Pow2(a)

otherVars == <<runVars, uiVars, manualVars, executorVars, modeVars, inputVars,
               randomVars>>

InitRetry ==
  /\ InitHome
  /\ proxyCall = NoCall
  /\ apiResult = NoResult
  /\ randomRolls = NoRolls
  /\ generated = NoneGenerated
  /\ retryConfig \in RetryConfigs
  /\ fnOutcomes \in [1..(MaxMaxRetries + 1) -> FnOutcomes]
  /\ retryPc = "idle"
  /\ attempt = 0
  /\ retryCount = 0
  /\ lastError = Undefined
  /\ fnCalls = 0
  /\ delays = <<>>
  /\ retryResult = NoRetryResult

\* part_003 125-127 and 158: the head of the loop for attempt a; fn is invoked,
\* or the loop is left and lastError is thrown.
LoopHead(a, error) ==
  /\ attempt' = a
  /\ IF LoopCondition(retryConfig, a)
     THEN /\ fnCalls' = fnCalls + 1
          /\ retryPc' = "fn"
          /\ UNCHANGED retryResult
     ELSE /\ retryPc' = "thrown"
          /\ retryResult' = [kind |-> "thrown", value |-> error, retryCount |-> 0]
          /\ UNCHANGED fnCalls

\* part_003 118-127: withRetry is called.
WithRetry ==
  /\ retryPc = "idle"
  /\ lastError' = Undefined
  /\ retryCount' = 0
  /\ LoopHead(0, Undefined)
  /\ UNCHANGED <<retryConfig, fnOutcomes, delays>>
  /\ UNCHANGED otherVars

\* part_003 127-153: the promise of fn settles.
FnSettles ==
  /\ retryPc = "fn"
  /\ LET outcome == [fnOutcomes[fnCalls] EXCEPT !.invocation = fnCalls]
     IN IF outcome.kind = "result"
        THEN /\ retryPc' = "returned"
             /\ retryResult' = [kind |-> "returned", value |-> outcome,
                                retryCount |-> retryCount]
             /\ UNCHANGED <<lastError, retryCount, delays>>
        ELSE /\ lastError' = outcome
             /\ IF attempt >= retryConfig.maxRetries \/ ~IsRetryable(retryConfig, outcome)
                THEN /\ retryPc' = "thrown"
                     /\ retryResult' = [kind |-> "thrown", value |-> outcome,
                                        retryCount |-> 0]
                     /\ UNCHANGED <<retryCount, delays>>
                ELSE /\ delays' = Append(delays, BackoffDelay(retryConfig, attempt))
                     /\ retryCount' = retryCount + 1
                     /\ retryPc' = "sleep"
                     /\ UNCHANGED retryResult
  /\ UNCHANGED <<retryConfig, fnOutcomes, attempt, fnCalls>>
  /\ UNCHANGED otherVars

\* part_003 153 and 125-127: the delay has passed, the loop goes on.
SleepElapses ==
  /\ retryPc = "sleep"
  /\ LoopHead(attempt + 1, lastError)
  /\ UNCHANGED <<retryConfig, fnOutcomes, retryCount, lastError, delays>>
  /\ UNCHANGED otherVars

NextRetry ==
  \/ WithRetry
  \/ FnSettles
  \/ SleepElapses

SpecRetry == InitRetry /\ [][NextRetry]_vars

\* ================================================================ properties
IssuedBy(r) == SelectSeq(issued, LAMBDA c : c.run = r)
UpTo(n) == [j \in 1..n |-> j]

\* The step in which invocation r returns, uncancelled and with its canary
\* parameters found.
Returns(r) ==
  /\ pc[r] # "done"
  /\ pc'[r] = "done"
  /\ ~aborted'[r]
  /\ configErrors'[r] = 0

\* The step in which invocation r reports that the canary parameters are
\* missing.
ReportsConfigError(r) == configErrors'[r] > configErrors[r]

\* ------------------------------------------------------------------------ C1
\* C1: the first call a run issues is call 1 and carries the known-good
\* parameters the run was supplied with; every call with id 2..count carries
\* generated parameters and is issued only once the run has recorded call 1.
CanaryFirst ==
  /\ \A j \in 1..Len(issued) :
       LET c == issued[j] IN
       /\ c.id = 1 => /\ c.gen = "supplied"
                      /\ CallParams(c) = correct[c.run]
                      /\ CallParams(c) = KnownGood
       /\ c.id # 1 => /\ c.id \in 2..count[c.run]
                      /\ c.gen = "random"
                      /\ CallParams(c) \in RandomParams
                      /\ recorded[c.run] # <<>>
                      /\ recorded[c.run][1] = 1
  /\ \A r \in Runs : IssuedBy(r) # <<>> => IssuedBy(r)[1].id = 1

\* A run of two calls has returned: the canary, then a random call.
CanaryFirstWitness ==
  \E r \in Runs :
    /\ pc[r] = "done"
    /\ ~aborted[r]
    /\ count[r] = 2
    /\ Ids(IssuedBy(r)) = <<1, 2>>
    /\ recorded[r] = <<1, 2>>

\* ------------------------------------------------------------------------ C2
\* C2: when the canary parameters are missing the run has issued no call and
\* recorded no outcome, and as it reports the configuration error the totals
\* (total, success, error, averageTime) are all zero and the result list is
\* empty.
ConfigErrorLeavesNothing ==
  [][\A r \in Runs :
       ReportsConfigError(r) =>
         /\ IssuedBy(r) = <<>>
         /\ recorded[r] = <<>>
         /\ statsRef' = ZeroStats
         /\ batchResultsRef' = <<>>
         /\ logsRef'[Len(logsRef')] = "configError"]_vars

\* ------------------------------------------------------------------------ C3
\* C3: isRunning is not true at any time of a run whose canary parameters are
\* missing, up to the step in which the run reports it, and the run reports
\* it once.
NeverRunningOnConfigError ==
  [][\A r \in Runs :
       ReportsConfigError(r) =>
         /\ ~isRunning
         /\ ~isRunning'
         /\ configErrors'[r] = 1]_vars

ExactlyCountOutcomes ==
  [][\A r \in Runs :
       Returns(r) =>
         /\ statsRef'.total = count[r]
         /\ Len(batchResultsRef') = count[r]]_vars

\* ------------------------------------------------------------------------ C6
\* C6: a run has at most one call in flight; it issues call i + 1 only after
\* it recorded call i; and when it returns, never cancelled, the result list
\* holds the ids 1..N in this order.
SequentialOrdering ==
  [][/\ \A r \in Runs :
          /\ Cardinality(inFlight[r]) <= 1
          /\ Ids(IssuedBy(r)) = UpTo(Len(IssuedBy(r)))
          /\ Len(IssuedBy(r)) <= Len(recorded[r]) + 1
          /\ recorded[r] = UpTo(Len(recorded[r]))
     /\ \A r \in Runs :
          Returns(r) => Ids(batchResultsRef') = UpTo(count[r])]_vars

\* ------------------------------------------------------------------------ C7
\* C7: in parallel mode the calls a run has issued and not yet recorded are
\* at most threadCount, the canary counting as one.
ParallelBound ==
  \A r \in ModeRuns :
    mode[r] = "parallel" =>
      Cardinality(inFlight[r]) + Cardinality(settled[r]) <= threads[r]

\* A batch of threadCount = 2 calls is in flight.
ParallelBoundWitness ==
  \E r \in ModeRuns :
    /\ mode[r] = "parallel"
    /\ pc[r] = "batch"
    /\ threads[r] = 2
    /\ Cardinality(inFlight[r]) = 2

\* ------------------------------------------------------------------------ C8
\* The calls after the canary that the run has not issued yet.
UnIssued(r) == (2..count[r]) \ {c.id : c \in Range(IssuedBy(r))}

\* C8 as stated: in the parallel branch, while un-issued calls remain and
\* the run is not cancelled, threadCount calls are pending, a completed call
\* being replaced at once by the next un-issued one.
PoolKeptFull ==
  \A r \in ModeRuns :
    (mode[r] = "parallel" /\ pc[r] = "batch" /\ ~aborted[r] /\ UnIssued(r) # {})
      => Cardinality(inFlight[r]) = threads[r]

\* C8: the calls after the canary are issued in batches of threadCount calls
\* (the last one of what is left): the calls issued and not recorded are the
\* whole of one batch, and every call before that batch is recorded.
BatchByBatch ==
  \A r \in ModeRuns :
    (mode[r] = "parallel" /\ pc[r] = "batch") =>
      LET k == threads[r]
          first == 2 + loopI[r] * k
          last == Min(first + k - 1, count[r])
      IN /\ {c.id : c \in inFlight[r]} \cup {res.id : res \in settled[r]} = first..last
         /\ recorded[r] = UpTo(first - 1)
         /\ Ids(batchResults[r]) = recorded[r]

\* One call of a batch of two has completed, the other is pending, and call
\* 4 waits un-issued for both.
BatchByBatchWitness ==
  \E r \in ModeRuns :
    /\ mode[r] = "parallel"
    /\ pc[r] = "batch"
    /\ ~aborted[r]
    /\ threads[r] = 2
    /\ Cardinality(inFlight[r]) = 1
    /\ Cardinality(settled[r]) = 1
    /\ UnIssued(r) = {4}

ParallelComplete ==
  \A r \in ModeRuns :
    (pc[r] = "done" /\ mode[r] = "parallel" /\ ~aborted[r] /\ configErrors[r] = 0) =>
      /\ Len(batchResults[r]) = count[r]
      /\ {batchResults[r][j].id : j \in 1..Len(batchResults[r])} = 1..count[r]
      /\ localStats[r].successCount + localStats[r].errorCount = count[r]

\* A parallel run of four calls in batches of two has returned.
ParallelCompleteWitness ==
  \E r \in ModeRuns :
    /\ pc[r] = "done"
    /\ mode[r] = "parallel"
    /\ ~aborted[r]
    /\ configErrors[r] = 0
    /\ threads[r] = 2
    /\ count[r] = 4
    /\ Len(batchResults[r]) = 4

\* ----------------------------------------------------------------------- C11
\* The step in which invocation r returns after Stop was requested of it.
ReturnsCancelled(r) ==
  /\ pc[r] # "done"
  /\ pc'[r] = "done"
  /\ aborted'[r]

\* C11: a run that Stop was requested of before it issued its first call
\* has issued no call and recorded no outcome when it returns, and the
\* totals, the result list and the point count are then zero.
StopBeforeFirstCall ==
  [][\A r \in Runs :
       (ReturnsCancelled(r) /\ IssuedBy(r)' = <<>>) =>
         /\ recorded'[r] = <<>>
         /\ statsRef' = ZeroStats
         /\ batchResultsRef' = <<>>
         /\ graphSequenceRef' = 0]_vars

\* ----------------------------------------------------------------------- C12
\* After Stop was requested of run r, r issues no further call.
NoIssueAfterStop(r) ==
  (aborted[r] /\ aborted'[r]) => IssuedBy(r)' = IssuedBy(r)

CancelledOutcomeIgnored ==
  [][\A r \in Runs :
       settling = r =>
         /\ statsRef' = statsRef
         /\ graphSequenceRef' = graphSequenceRef]_vars

OneRunAtATime ==
  Cardinality({r \in Runs : Live(r)}) <= 1

\* ----------------------------------------------------------------------- C17
\* Run r has returned with its canary parameters found, no run is live, and
\* the frame its finally block asked for has been served.
Delivered(r) ==
  /\ pc[r] = "done"
  /\ configErrors[r] = 0
  /\ \A q \in Runs : ~Live(q)
  /\ uiUpdateRequestRef = 0

\* The points of the recorded outcomes, in the order they were appended.
AllPoints == [j \in 1..Len(batchResultsRef) |-> GraphPoint(j, batchResultsRef[j])]

\* C17: once a run has ended and its final flush was served, the result
\* list and the totals the observer holds are those the run recorded, no
\* point is left in the buffer, and the time series holds the point of every
\* recorded outcome (the runs here stay below its capacity).
FinalFlushDelivers ==
  \A r \in Runs :
    Delivered(r) =>
      /\ results = batchResultsRef
      /\ stats = statsRef
      /\ graphDataBufferRef = <<>>
      /\ \A j \in 1..Len(AllPoints) : AllPoints[j] \in Range(responseTimeData)

\* ----------------------------------------------------------------------- C18
\* C18: the time series the observer holds has at most graphMaxPoints
\* points, graphMaxPoints being the capacity the run was started with.
SeriesWithinCapacity ==
  \A r \in Runs :
    (pc[r] # "idle" /\ closure[r].graphMaxPoints = graphMaxPoints) =>
      Len(responseTimeData) <= graphMaxPoints

\* ----------------------------------------------------------------------- C19
\* C19: once a run has appended more points than the capacity it was
\* started with and all of them are flushed, the time series is the last
\* `capacity` appended points, in append order.
SlidingWindow ==
  \A r \in Runs :
    (Delivered(r) /\ graphSequenceRef > closure[r].graphMaxPoints) =>
      /\ graphDataBufferRef = <<>>
      /\ responseTimeData = Slice(AllPoints, -closure[r].graphMaxPoints)

\* ----------------------------------------------------------------------- C20
\* C20: after the final flush the totals and the time series the observer
\* holds are the same for every timing and grouping of the flushes before
\* it; they are therefore those of the grouping with no flush before the
\* final one.
FlushGroupingIrrelevant ==
  \A r \in Runs :
    (Delivered(r) /\ batchResultsRef # <<>>) =>
      /\ stats = statsRef
      /\ responseTimeData = FinalFlush(<<>>, AllPoints)

\* ----------------------------------------------------------------------- C21
\* C21: in every state of a batch run or a manual run the running totals
\* satisfy success + error = total, and total is the number of outcomes in
\* the result list of the run.
StatisticsInvariant ==
  /\ statsRef.success + statsRef.error = statsRef.total
  /\ \A r \in Runs : Live(r) => statsRef.total = Len(batchResultsRef)
  /\ manualPc = "call" => statsRef.total = Len(manualResultsRef)

\* ----------------------------------------------------------------------- C22
RECURSIVE SumDurations(_)
SumDurations(rs) ==
  IF rs = <<>> THEN 0 ELSE rs[1].duration + SumDurations(Tail(rs))

\* C22: after every recorded outcome averageTime is the arithmetic mean of
\* the durations of the outcomes recorded so far: averageTime * total is
\* their sum.
AverageIsMean ==
  statsRef.total > 0 =>
    /\ statsRef.total = Len(batchResultsRef)
    /\ statsRef.averageTime.num * statsRef.total
         = SumDurations(batchResultsRef) * statsRef.averageTime.den

\* ----------------------------------------------------------------------- C23
\* An invocation of runBatchCalls takes place r; runManualTests is entered;
\* the invocation of runManualTests returns.
Begins(r) == ~Live(r) /\ pc'[r] = "testValues"
ManualBegins ==
  /\ manualPc # "call"
  /\ logsRef' # logsRef
  /\ logsRef' # <<>>
  /\ logsRef'[1] = "manualStart"
ManualReturns == manualPc' = "done" /\ (manualPc = "call" \/ ManualBegins)

\* C23: with runs that do not overlap, the totals are zero and the sequence
\* counter is 0 when a batch run or a manual run begins, and when a run ends
\* total is the number of outcomes that run recorded.
PerRunReset ==
  [][ /\ \A r \in Runs :
           /\ Begins(r) => statsRef' = ZeroStats /\ graphSequenceRef' = 0
           /\ (pc[r] # "done" /\ pc'[r] = "done") =>
                statsRef'.total = Len(recorded'[r])
      /\ ManualBegins /\ manualPc' = "call" =>
           statsRef' = ZeroStats /\ graphSequenceRef' = 0
      /\ ManualReturns =>
           /\ statsRef'.total = callId' - 1
           /\ Len(manualResultsRef') = callId' - 1 ]_vars

\* A batch run of two calls has completed with total 2 after a manual run
\* that left an outcome of its own.
PerRunResetWitness ==
  \E r \in Runs :
    /\ pc[r] = "done"
    /\ ~aborted[r]
    /\ configErrors[r] = 0
    /\ count[r] = 2
    /\ statsRef.total = 2
    /\ manualPc = "done"
    /\ Len(manualResultsRef) >= 1

\* ----------------------------------------------------------------------- C24
\* C24: the k-th point a run appends carries the label k, the first point
\* of a run carrying 1, whatever the id of the call.
SequenceLabels ==
  [][ /\ \A r \in Runs :
           Len(recorded'[r]) = Len(recorded[r]) + 1 =>
             graphSequenceRef' = Len(recorded'[r])
      /\ (manualPc = "call" /\ callId' = callId + 1) =>
           graphSequenceRef' = callId ]_vars

\* ----------------------------------------------------------------------- C25
\* C25: when a call of a run that was not cancelled ends in an error outcome
\* of any kind and is not the last call, the outcome is recorded as an error
\* and the next call is issued.
FailureDoesNotStopRun ==
  [][ \A r \in Runs :
        ( /\ Len(recorded'[r]) = Len(recorded[r]) + 1
          /\ ~aborted'[r]
          /\ batchResultsRef'[Len(batchResultsRef')].status = "error"
          /\ batchResultsRef'[Len(batchResultsRef')].id < count[r] ) =>
        /\ statsRef'.error = statsRef.error + 1
        /\ statsRef'.success = statsRef.success
        /\ pc'[r] = "call"
        /\ \E c \in inFlight'[r] : c.id = batchResultsRef'[Len(batchResultsRef')].id + 1 ]_vars

\* A run goes on with call 3 after its call 2 ended in a body that did not
\* parse.
FailureDoesNotStopRunWitness ==
  \E r \in Runs :
    /\ pc[r] = "call"
    /\ ~aborted[r]
    /\ batchResultsRef # <<>>
    /\ batchResultsRef[Len(batchResultsRef)].run = r
    /\ batchResultsRef[Len(batchResultsRef)].id = 2
    /\ batchResultsRef[Len(batchResultsRef)].error = "Failed to parse response"
    /\ statsRef.error >= 1

\* ----------------------------------------------------------------------- C26
\* C26: when the promise of a call settles, by rejecting too, an outcome is
\* recorded for the call (for a rejection an error with statusCode 0), and
\* unless the run is cancelled or the call was the last one the next call is
\* issued.
RejectionContained ==
  [][ \A r \in Runs :
        Len(completed'[r]) = Len(completed[r]) + 1 =>
          /\ Len(recorded'[r]) = Len(recorded[r]) + 1
          /\ (completed'[r][Len(completed'[r])] < count[r] /\ ~aborted'[r]) =>
               pc'[r] = "call" ]_vars

\* ----------------------------------------------------------------------- C27
\* C27: when every request a run makes settles, a started run returns; in
\* the step in which it returns isRunning becomes (or stays) false, and a
\* run that has returned has no call in flight.
EveryRunTerminates ==
  /\ \A r \in Runs : Live(r) ~> (pc[r] = "done")
  /\ [][\A r \in Runs : (Live(r) /\ pc'[r] = "done") => ~isRunning']_vars
  /\ [](\A r \in Runs : pc[r] = "done" => inFlight[r] = {})

\* A run has returned after its last call, another after Stop, in one
\* behaviour.
EveryRunTerminatesWitness ==
  \E r, q \in Runs :
    /\ r # q
    /\ pc[r] = "done" /\ ~aborted[r] /\ configErrors[r] = 0
    /\ Len(recorded[r]) = 2
    /\ pc[q] = "done" /\ aborted[q]
    /\ ~isRunning

\* ----------------------------------------------------------------------- C28
\* C28: the outcome of a call is a success exactly when the response of the
\* proxy is ok, its body is read, the ok flag of the body is true and the
\* body has no error field; otherwise it is an error.
SuccessIffTransportOk ==
  apiResult # NoResult =>
    /\ apiResult.status \in {"success", "error"}
    /\ apiResult.status = "success" <=>
         /\ Fetched.kind = "response"
         /\ Fetched.http >= 200 /\ Fetched.http < 300
         /\ Fetched.parses
         /\ Fetched.ok
         /\ Fetched.error = ""

\* A call that the target answered with 204 has returned a success.
SuccessIffTransportOkWitness ==
  /\ apiResult # NoResult
  /\ proxyCall.link = "up"
  /\ proxyCall.target.statusCode = 204
  /\ apiResult.status = "success"

\* ----------------------------------------------------------------------- C29
\* The call ends in a failure of the transport: the target did not answer,
\* the request to the proxy did not get through, or the body was not JSON.
TransportFailure ==
  \/ proxyCall.link \in {"down", "downSilent", "garbled", "garbledOk", "aborted"}
  \/ proxyCall.link = "up" /\ RowFilled(proxyCall.params)
                           /\ proxyCall.target.kind = "error"

\* C29: an outcome that results from a failure of the transport has
\* statusCode 0 and an error description that is not empty.
TransportFailureIsStatusZero ==
  (apiResult # NoResult /\ TransportFailure) =>
    apiResult.statusCode = 0 /\ apiResult.error # ""

\* ----------------------------------------------------------------------- C30
\* C30: when the target answers with a status S outside 200..299, the
\* outcome is an error with statusCode S and its duration is the elapsed time
\* the proxy reports.
ApplicationErrorKeepsStatus ==
  ( /\ apiResult # NoResult
    /\ proxyCall.link = "up"
    /\ RowFilled(proxyCall.params)
    /\ proxyCall.target.kind = "answer"
    /\ ~(proxyCall.target.statusCode >= 200 /\ proxyCall.target.statusCode < 300) ) =>
    /\ apiResult.status = "error"
    /\ apiResult.statusCode = proxyCall.target.statusCode
    /\ apiResult.duration = proxyCall.target.elapsed

\* A call the target answered with 404 after 2 ms has returned.
ApplicationErrorKeepsStatusWitness ==
  /\ apiResult # NoResult
  /\ proxyCall.link = "up"
  /\ proxyCall.target = TargetAnswer(404, 2)
  /\ apiResult.statusCode = 404
  /\ apiResult.duration = 2

\* C31: after any sequence of change and blur events on the numeric inputs,
\* the call count is in 1..10000, the thread count is in 1..50 and the manual
\* repeat count is in 1..50000, and every batch run was started with a count
\* in 1..10000.
ConfiguredLimitsHold ==
  /\ callCount \in 1..10000
  /\ threadCount \in 1..50
  /\ manualRepeatCount \in 1..50000
  /\ \A r \in Runs : pc[r] # "idle" => count[r] \in 1..10000

\* A run was started with the largest count after an oversized text, a
\* negative text was typed for the threads and the repeat count was left
\* empty and blurred.
ConfiguredLimitsHoldWitness ==
  /\ \E r \in Runs : pc[r] = "testValues" /\ count[r] = 10000
  /\ callCountInput = <<"9", "9", "9", "9", "9", "9", "9">>
  /\ threadCountInput = <<"-", "5">>
  /\ threadCount = 1
  /\ manualRepeatCountInput = <<"1">>
  /\ manualRepeatCount = 1

\* C32: for every value the random source returns, the generated dateString is
\* a 4-digit year in 1400..1499, a dash and a 2-digit month in 01..12, the
\* generated nin is a 9-digit decimal in 100000000..999999999, and
\* validateApiParams accepts the pair.
RandomParamsWellFormed ==
  generated # NoneGenerated =>
    LET d == generated.dateString
        n == generated.nin
    IN /\ Len(d) = 7
       /\ AllDigits(SubSeq(d, 1, 4))
       /\ DigitsValue(SubSeq(d, 1, 4)) \in 1400..1499
       /\ d[5] = "-"
       /\ AllDigits(SubSeq(d, 6, 7))
       /\ DigitsValue(SubSeq(d, 6, 7)) \in 1..12
       /\ Len(n) = 9
       /\ AllDigits(n)
       /\ DigitsValue(n) \in 100000000..999999999
       /\ ValidateApiParams(d, n).valid

\* The largest rolls give the last year, a one-digit month is padded.
RandomParamsWellFormedWitness ==
  /\ randomRolls.year.num = 1199
  /\ randomRolls.month.num = 1
  /\ randomRolls.nin.num = 1199
  /\ generated = [dateString |-> <<"1", "4", "9", "9", "-", "0", "1">>,
                  nin |-> <<"9", "9", "9", "2", "5", "0", "0", "0", "0">>]

\* What the j-th invocation of fn settles with.
FnOutcome(j) == [fnOutcomes[j] EXCEPT !.invocation = j]
RetryableFailure(j) ==
  fnOutcomes[j].kind = "error" /\ IsRetryable(retryConfig, fnOutcomes[j])
WithRetryFinished == retryPc \in {"returned", "thrown"}

\* C33: with maxRetries = m >= 0, withRetry invokes fn at least once and at
\* most m + 1 times; it returns the first successful result with retryCount
\* equal to the number of failed attempts before it; when all m + 1 attempts
\* fail with retryable errors it throws the error of the last attempt.
WithRetryBounded ==
  LET m == retryConfig.maxRetries
  IN /\ fnCalls <= m + 1
     /\ WithRetryFinished => fnCalls >= 1
     /\ retryPc = "returned" =>
          /\ fnOutcomes[fnCalls].kind = "result"
          /\ \A j \in 1..(fnCalls - 1) : fnOutcomes[j].kind = "error"
          /\ retryResult.value = FnOutcome(fnCalls)
          /\ retryResult.retryCount = fnCalls - 1
     /\ \A k \in 1..(m + 1) :
          ( /\ WithRetryFinished
            /\ fnOutcomes[k].kind = "result"
            /\ \A j \in 1..(k - 1) : RetryableFailure(j) )
          => retryPc = "returned" /\ fnCalls = k
     /\ (WithRetryFinished /\ \A j \in 1..(m + 1) : RetryableFailure(j)) =>
          /\ retryPc = "thrown"
          /\ fnCalls = m + 1
          /\ retryResult.value = FnOutcome(m + 1)

\* Four attempts failed with retryable errors, the last one is thrown.
WithRetryBoundedWitness ==
  /\ retryConfig = DEFAULT_RETRY_CONFIG
  /\ retryPc = "thrown"
  /\ fnCalls = 4
  /\ fnOutcomes[1].statusCode = 503
  /\ retryResult.value = [FnError(0, "ETIMEDOUT") EXCEPT !.invocation = 4]

\* C34: an attempt that fails with an error withRetry does not take for
\* retryable makes it throw that error at once, with no delay and no further
\* invocation of fn; before the k-th retry it waits retryDelay * 2^(k-1).
NonRetryableThrownAtOnce ==
  /\ [][ ( /\ retryPc = "fn"
           /\ fnOutcomes[fnCalls].kind = "error"
           /\ ~IsRetryable(retryConfig, fnOutcomes[fnCalls]) )
         => /\ retryPc' = "thrown"
            /\ retryResult'.value = FnOutcome(fnCalls)
            /\ delays' = delays
            /\ fnCalls' = fnCalls ]_vars
  /\ [][ retryPc = "thrown" => fnCalls' = fnCalls /\ delays' = delays ]_vars
  /\ [](\A k \in DOMAIN delays : delays[k] = retryConfig.retryDelay * Pow2(k - 1))
  /\ [](retryPc = "fn" => fnCalls = Len(delays) + 1)

\* A 404 after two retries: thrown at once, after the delays 1000 and 2000.
NonRetryableThrownAtOnceWitness ==
  /\ retryPc = "thrown"
  /\ delays = <<1000, 2000>>
  /\ fnCalls = 3
  /\ retryResult.value = [FnError(404, "") EXCEPT !.invocation = 3]

\* C38: with the default configuration, withRetry retries after an error
\* exactly when isRetryableError returns true for it.
RetryAgreesWithClassifier ==
  [][ ( /\ retryPc = "fn"
        /\ retryConfig = DEFAULT_RETRY_CONFIG
        /\ fnOutcomes[fnCalls].kind = "error"
        /\ attempt < retryConfig.maxRetries )
      => ((retryPc' = "sleep") <=> IsRetryableError(fnOutcomes[fnCalls])) ]_vars

\* C35: once a run r has been stopped and a new run n has been started (n
\* is live and abortControllerRef holds its controller), no step of r appends
\* an outcome to the results or the statistics, clears the controller of n,
\* stops the periodic UI-update timer of n, or sets the running flag to false.
StoppedRunDoesNotDisturb ==
  [][ \A r \in Runs, n \in Runs :
        ( /\ r # n
          /\ Live(r) /\ aborted[r]
          /\ Live(n) /\ ~aborted[n] /\ abortControllerRef = n
          /\ pc'[r] # pc[r] )
        => /\ batchResultsRef' = batchResultsRef
           /\ statsRef' = statsRef
           /\ abortControllerRef' = n
           /\ uiUpdateIntervalRef = n => uiUpdateIntervalRef' = n
           /\ isRunning => isRunning' ]_vars

\* C36: whenever runBatchCalls returns, by completion, by cancellation or by
\* a configuration failure, the periodic UI-update timer started for the run
\* has been cleared and abortControllerRef does not hold the run's controller.
ResourcesReleasedOnExit ==
  [][ \A r \in Runs :
        (pc[r] # "done" /\ pc'[r] = "done")
        => uiUpdateIntervalRef' # r /\ abortControllerRef' # r ]_vars

\* C37: within one run, the entries delivered to the API response log carry
\* the serial numbers 1, 2, 3, ... in logging order, none of them twice,
\* wherever the flushes fall between the log appends.
ApiLogSerials ==
  \A k \in DOMAIN apiLogs : apiLogs[k].serial = k

====
